---- MODULE Spec2Model ----
(***************************************************************************)
(* Executor runtime of buildaquery: the connection / transaction state     *)
(* machine of the executors that own a lifecycle (SqliteExecutor,          *)
(* MySqlExecutor, MariaDbExecutor, CockroachExecutor), driven against a    *)
(* driver whose calls may raise: acquiring or connecting, every statement,  *)
(* commit and rollback.  Handing a connection back (the release hook,      *)
(* conn.close()) and the observers are taken to return normally.           *)
(* Observability is configured with an event observer and a query          *)
(* observer, so every event and every QueryObservation is delivered.       *)
(*                                                                         *)
(* One action models one public method call, from entry to return or       *)
(* raise.  The driver calls and the observability events of that call are  *)
(* recorded in `calls` and `events`; the exception that leaves the method  *)
(* (or "none") is recorded in `outcome`.                                   *)
(***************************************************************************)
EXTENDS Integers, Sequences, FiniteSets, TLC

\* ------------------------------------------------------------------ bounds
\* number of connections the acquire hook / the driver may hand out in a run
MaxConns == 2
\* number of transaction ids uuid4() is asked for in a run
MaxTx == 2
\* largest number of parameter sets given to execute_many
MaxParamSets == 1
\* number of rows the statements of a run insert
MaxRows == 2
\* number of fragments a driver's error message is made of
MaxPhrases == 2
\* largest max_attempts of a RetryPolicy
MaxAttempts == 3
\* number of ASTs handed to one compiler
MaxCompiles == 3
\* number of events handed to one adapter
MaxEvents == 4
\* the largest finite float, delays being counted in whole units
FloatMax == 8

\* ------------------------------------------------------------ value spaces
\* Python None for a connection, a transaction id or a release mode
None == 0
\* identity of the connection given to the constructor (connection=...)
SuppliedConn == 1
\* identities of the connections returned by acquire_connection()/connect()
FreshConns == 2..(MaxConns + 1)

Dialects == {"sqlite", "mysql", "mariadb", "cockroachdb"}

\* what hasattr(conn, "autocommit") / conn.autocommit yield
AutocommitValues == {"absent", "true", "false"}

\* the places of one method call where the driver or a hook may raise
FaultPoints == {"acquire", "setiso", "stmt", "commit", "rollback"}

\* query argument of execute / fetch_all / fetch_one: a CompiledQuery or an
\* ASTNode that compiles ("ok"), an ASTNode the compiler rejects
QueryInputs == {"ok", "bad_ast"}

\* isolation_level argument of begin(): None, a level the dialect accepts,
\* a string that is not a level
IsolationInputs == {"none", "valid", "invalid"}

VARIABLES
    dialect,        \* which executor class this is
    connection,     \* self.connection: SuppliedConn or None
    acquireHook,    \* connection_settings.acquire_connection is not None
    releaseHook,    \* connection_settings.release_connection is not None
    closed,         \* self._closed
    txConn,         \* self._transaction_connection
    txMode,         \* self._transaction_release_mode: "none"|"release"|"close"
    txId,           \* self._transaction_id
    txPrevAC,       \* self._transaction_previous_autocommit ("absent" = None)
    nextConn,       \* identity of the next connection handed out
    nextTx,         \* next value of uuid4() for a transaction id
    connAC,         \* conn -> value of its autocommit attribute
    acquired,       \* connections returned by the acquire hook so far
    opened,         \* connections returned by the driver's connect() so far
    released,       \* conn -> number of times passed to the release hook
    connClosed,     \* conn -> number of conn.close() calls
    db,             \* database: the committed rows, seen from every connection
    pending,        \* database: conn -> rows written on it and not yet committed
    nextRow,        \* database: identity of the next row inserted
    lastOp,         \* the method call that produced this state
    calls,          \* driver / hook calls made by lastOp, in order
    events,         \* events emitted by lastOp, in order
    observations,   \* QueryObservations handed to the query observer by lastOp
    result,         \* rows returned by lastOp (fetch_all / fetch_one)
    retry,          \* the retry loop of lastOp: policy, attempts, sleeps, error
    driverExc,      \* the driver exception given to normalize_execution_error
    normalized,     \* the ExecutionError it returned
    outcome,        \* exception that left lastOp, "none" if it returned
    compiler,       \* a compiler: its class and the list self._params is bound to
    heap,           \* the lists compile() has created, with what they hold
    asts,           \* the ASTs handed to the compiler, in order
    compiled,       \* the compile() calls made so far and what they returned
    tracing,        \* an InMemoryTracingAdapter
    metrics,        \* an InMemoryMetricsAdapter
    observed        \* the ExecutionEvents handed to the adapters so far

config == <<dialect, connection, acquireHook, releaseHook>>
fields == <<closed, txConn, txMode, txId, txPrevAC>>
driver == <<nextConn, nextTx, connAC, acquired, opened, released, connClosed>>
store  == <<db, pending, nextRow>>
trace  == <<lastOp, calls, events, observations, result, retry, outcome>>
errors == <<driverExc, normalized>>
executor == <<config, fields, driver, store, trace, errors>>
compilation == <<compiler, heap, asts, compiled>>
observers == <<tracing, metrics, observed>>
vars   == <<executor, compilation, observers>>

AllConns == {SuppliedConn} \cup FreshConns

\* ----------------------------------------------------------- method frame
\* The mutable state a method works on, as one record: the executor's
\* fields, the driver side, the trace of the call, the exception in flight
\* (`raised`) and the locals conn / release_mode of the query helpers.
\* nextQid stands for uuid4().hex in _next_query_id: the k-th query id drawn
\* during the call is k (ids of different calls are never compared).
\* policy, attempts, sleeps, log and error belong to run_with_retry: the
\* RetryPolicy, the number of operation() calls made, the delays handed to
\* sleep_fn, the inputs of the attempts and the ExecutionError raised.
Frame ==
    [closed |-> closed, txConn |-> txConn, txMode |-> txMode, txId |-> txId,
     txPrevAC |-> txPrevAC, nextConn |-> nextConn, nextTx |-> nextTx,
     connAC |-> connAC, acquired |-> acquired, opened |-> opened,
     released |-> released, connClosed |-> connClosed,
     calls |-> <<>>, events |-> <<>>, observations |-> <<>>, raised |-> "none",
     conn |-> None, mode |-> "none", nextQid |-> 1,
     policy |-> [max_attempts |-> 0, base_delay |-> 0,
                 backoff_multiplier |-> 1, max_delay |-> 0],
     attempts |-> 0, sleeps |-> <<>>, log |-> <<>>,
     error |-> [kind |-> "none", dialect |-> "", operation |-> "",
                sqlstate |-> "", original_message |-> ""]]

Raise(st, exc) == [st EXCEPT !.raised = exc]

Call(st, fn, c, arg) ==
    [st EXCEPT !.calls = Append(@, [fn |-> fn, conn |-> c, arg |-> arg])]

\* MariaDbExecutor emits no connection / transaction events of its own
EmitsLifecycleEvents == dialect # "mariadb"

\* a local of a method: v is evaluated once and named in K
With(v, K(_)) == K(v)

\* the ExecutionEvent handed to the event observer: event, operation,
\* transaction_id, connection_id, success, query_id, retry_attempt,
\* retryable and timestamp, the time being counted in driver and hook calls
\* made so far
ExecutionEvent(kind, op, tx, c, ok, qid, attempt, retryable, at) ==
    [kind |-> kind, op |-> op, tx |-> tx, conn |-> c, ok |-> ok,
     qid |-> qid, attempt |-> attempt, retryable |-> retryable, at |-> at]

emit_event(st, kind, op, tx, c, ok) ==
    [st EXCEPT !.events =
        Append(@, ExecutionEvent(kind, op, tx, c, ok, None, None, None,
                                 Len(st.calls)))]

\* retry.scheduled / retry.giveup, which carry retry_attempt and retryable
emit_retry_event_unobserved(st, kind, op, attempt, retryable) == st

emit_retry_event(st, kind, op, attempt, retryable) ==
    [st EXCEPT !.events =
        Append(@, ExecutionEvent(kind, op, None, None, FALSE, None, attempt,
                                 retryable, Len(st.calls)))]

\* query.start / query.end, which carry the query id
emit_query_event(st, kind, op, qid, ok) ==
    [st EXCEPT !.events =
        Append(@, ExecutionEvent(kind, op, None, None, ok, qid, None, None,
                                 Len(st.calls)))]

EmitLifecycle(st, kind, tx, c) ==
    IF EmitsLifecycleEvents THEN emit_event(st, kind, "", tx, c, TRUE) ELSE st

\* try: ... finally: Fin -- Fin runs whatever happened; an exception raised
\* by Fin replaces the one in flight, otherwise the one in flight continues.
\* `tried` is the frame the try block left, `fin` the frame the finally block
\* left when started from EnterFinally(tried).
EnterFinally(tried) == [tried EXCEPT !.raised = "none"]

Finally(tried, fin) ==
    IF fin.raised # "none" THEN fin ELSE [fin EXCEPT !.raised = tried.raised]

\* ------------------------------------------------- sourcing and releasing
\* acquire_connection() or _connect(): the shared shape of the two sourcing
\* branches.  `ac` is the autocommit attribute of the connection handed out.
SourceConnection(st, F, ac, fn, mode) ==
    LET s1 == EmitLifecycle(st, "connection.acquire.start", None, None)
    IN  IF "acquire" \in F
        THEN Raise(Call(s1, fn, None, ""), "acquire_error")
        ELSE LET c  == s1.nextConn
                 s2 == [Call(s1, fn, c, "") EXCEPT
                           !.nextConn = c + 1,
                           !.connAC[c] = ac,
                           !.acquired = IF fn = "acquire" THEN @ \cup {c} ELSE @,
                           !.opened = IF fn = "connect" THEN @ \cup {c} ELSE @,
                           !.conn = c,
                           !.mode = mode]
             IN  EmitLifecycle(s2, "connection.acquire.end", None, c)

ensure_open(st) == IF st.closed THEN Raise(st, "closed") ELSE st

\* _get_connection_for_query asking the acquire hook before looking at the
\* connection given to the constructor
get_connection_hook_first(st, F, ac) ==
    IF ensure_open(st).raised # "none" THEN ensure_open(st)
    ELSE IF st.txConn # None THEN [st EXCEPT !.conn = st.txConn, !.mode = "none"]
    ELSE IF acquireHook THEN SourceConnection(st, F, ac, "acquire", "release")
    ELSE IF connection # None THEN [st EXCEPT !.conn = connection, !.mode = "none"]
    ELSE SourceConnection(st, F, ac, "connect", "close")

\* _get_connection_for_query without the branch for the active transaction
get_connection_ignores_transaction(st, F, ac) ==
    IF ensure_open(st).raised # "none" THEN ensure_open(st)
    ELSE IF connection # None THEN [st EXCEPT !.conn = connection, !.mode = "none"]
    ELSE IF acquireHook THEN SourceConnection(st, F, ac, "acquire", "release")
    ELSE SourceConnection(st, F, ac, "connect", "close")

get_connection_for_query(st, F, ac) ==
    IF ensure_open(st).raised # "none" THEN ensure_open(st)
    ELSE IF st.txConn # None THEN [st EXCEPT !.conn = st.txConn, !.mode = "none"]
    ELSE IF connection # None THEN [st EXCEPT !.conn = connection, !.mode = "none"]
    ELSE IF acquireHook THEN SourceConnection(st, F, ac, "acquire", "release")
    ELSE SourceConnection(st, F, ac, "connect", "close")

CloseConn(st, c) ==
    [Call(st, "close", c, "") EXCEPT !.connClosed[c] = @ + 1]

release_connection(st, c, mode) ==
    IF mode = "none" THEN st
    ELSE IF mode = "release"
    THEN LET s1 == EmitLifecycle(st, "connection.release", None, c)
         IN  IF releaseHook
             THEN [Call(s1, "release", c, "") EXCEPT !.released[c] = @ + 1]
             ELSE CloseConn(s1, c)
    ELSE CloseConn(EmitLifecycle(st, "connection.close", None, c), c)

\* _require_active_transaction_connection without the "No active
\* transaction" check
require_active_unchecked(st) ==
    IF ensure_open(st).raised # "none" THEN ensure_open(st)
    ELSE [st EXCEPT !.conn = st.txConn]

require_active_transaction_connection(st) ==
    IF ensure_open(st).raised # "none" THEN ensure_open(st)
    ELSE IF st.txConn = None THEN Raise(st, "no_active_transaction")
    ELSE [st EXCEPT !.conn = st.txConn]

\* ------------------------------------------------------------- query path
WriteOps == {"execute", "execute_many", "execute_raw"}
ReadOps  == {"fetch_all", "fetch_one"}
QueryOps == WriteOps \cup ReadOps

\* the driver statement of a query operation: cursor.execute / executemany
\* and the fetch that follows it
Statement(st, op, F) ==
    LET s1 == Call(st, "statement", st.conn, op)
    IN  IF "stmt" \in F THEN Raise(s1, "stmt_error") ELSE s1

DriverCommit(st, F) ==
    LET s1 == Call(st, "commit", st.conn, "")
    IN  IF "commit" \in F THEN Raise(s1, "commit_error") ELSE s1

\* CockroachExecutor: the commit sits in the finally block, guarded by the
\* connection's autocommit attribute, and precedes the release there
\* CockroachExecutor committing at the statement boundary whatever the
\* connection's autocommit attribute says
CockroachFinally_always_commits(st, F) ==
    IF st.mode = "none" THEN st
    ELSE LET s1 == DriverCommit(st, F)
         IN  IF s1.raised # "none" THEN s1
             ELSE release_connection(s1, s1.conn, s1.mode)

CockroachFinally(st, F) ==
    IF st.mode = "none" THEN st
    ELSE LET s1 == IF st.connAC[st.conn] # "true" THEN DriverCommit(st, F) ELSE st
         IN  IF s1.raised # "none" THEN s1
             ELSE release_connection(s1, s1.conn, s1.mode)

\* _execute_observed, _execute_many_observed, _execute_raw_observed,
\* _fetch_all_observed, _fetch_one_observed
run_observed(st, op, F, ac) ==
    With(get_connection_for_query(st, F, ac), LAMBDA g :
        IF g.raised # "none" THEN g
        ELSE IF op \in ReadOps
        THEN With(Statement(g, op, F), LAMBDA t :
             Finally(t, release_connection(EnterFinally(t), t.conn, t.mode)))
        ELSE IF dialect = "cockroachdb"
        THEN With(Statement(g, op, F), LAMBDA t :
             Finally(t, CockroachFinally(EnterFinally(t), F)))
        ELSE With(Statement(g, op, F), LAMBDA s1 :
             With(IF s1.raised = "none" /\ s1.mode # "none"
                  THEN DriverCommit(s1, F) ELSE s1, LAMBDA t :
             Finally(t, release_connection(EnterFinally(t), t.conn, t.mode)))))

\* _observe_query reporting the query only when it returned
observe_query_success_only(st, op, F, ac) ==
    LET qid == st.nextQid
        s1 == emit_query_event([st EXCEPT !.nextQid = @ + 1],
                               "query.start", op, qid, TRUE)
        s2 == run_observed(s1, op, F, ac)
        s3 == [s2 EXCEPT !.observations =
                  Append(@, [op |-> op, succeeded |-> TRUE,
                             in_transaction |-> s2.txConn # None])]
    IN  IF s2.raised = "none"
        THEN emit_query_event(s3, "query.end", op, qid, TRUE)
        ELSE s2

\* _observe_query emitting query.end when the connection has been acquired
\* and the statement run, leaving the hand-back of the connection for later
observe_query_ends_before_release(st, op, F, ac) ==
    LET qid == st.nextQid
        s1 == emit_query_event([st EXCEPT !.nextQid = @ + 1],
                               "query.start", op, qid, TRUE)
        g == get_connection_for_query(s1, F, ac)
        t == IF g.raised # "none" THEN g ELSE Statement(g, op, F)
        ok == t.raised = "none"
        s3 == [t EXCEPT !.observations =
                  Append(@, [op |-> op, succeeded |-> ok,
                             in_transaction |-> t.txConn # None])]
        s4 == emit_query_event(s3, "query.end", op, qid, ok)
    IN  IF g.raised # "none" THEN s4
        ELSE Finally(s4, release_connection(EnterFinally(s4), s4.conn, s4.mode))

\* Executor._observe_query around run_observed
observe_query(st, op, F, ac) ==
    With(st.nextQid, LAMBDA qid :
    With(run_observed(emit_query_event([st EXCEPT !.nextQid = @ + 1],
                                       "query.start", op, qid, TRUE),
                      op, F, ac), LAMBDA s2 :
    With(s2.raised = "none", LAMBDA ok :
        emit_query_event([s2 EXCEPT !.observations =
                             Append(@, [op |-> op, succeeded |-> ok,
                                        in_transaction |-> s2.txConn # None])],
                         "query.end", op, qid, ok))))

\* execute / fetch_all / fetch_one: _compile_if_needed comes first
execute(st, op, q, F, ac) ==
    IF q = "bad_ast" THEN Raise(st, "compile_error")
    ELSE observe_query(st, op, F, ac)

\* execute_many handing an empty param_sets to the driver like any other
execute_many_runs_empty(st, nsets, F, ac) ==
    observe_query(st, "execute_many", F, ac)

\* execute_many: an empty param_sets returns before anything else
execute_many(st, nsets, F, ac) ==
    IF nsets = 0 THEN st ELSE observe_query(st, "execute_many", F, ac)

execute_raw(st, F, ac) == observe_query(st, "execute_raw", F, ac)

\* ------------------------------------------------------------ transactions
has_active_transaction(st) == st.txConn # None

\* begin() taking ownership of the connection given to the constructor: the
\* transaction would close it when it ends
BeginSource_owns_supplied(st, F, ac) ==
    IF connection # None
    THEN [st EXCEPT !.txConn = connection, !.txMode = "close", !.conn = connection]
    ELSE LET s1 == IF acquireHook
                   THEN SourceConnection(st, F, ac, "acquire", "release")
                   ELSE SourceConnection(st, F, ac, "connect", "close")
         IN  IF s1.raised # "none" THEN s1
             ELSE [s1 EXCEPT !.txConn = s1.conn, !.txMode = s1.mode]

\* begin(): the connection branch, which assigns _transaction_connection and
\* _transaction_release_mode
BeginSource(st, F, ac) ==
    IF connection # None
    THEN [st EXCEPT !.txConn = connection, !.txMode = "none", !.conn = connection]
    ELSE LET s1 == IF acquireHook
                   THEN SourceConnection(st, F, ac, "acquire", "release")
                   ELSE SourceConnection(st, F, ac, "connect", "close")
         IN  IF s1.raised # "none" THEN s1
             ELSE [s1 EXCEPT !.txConn = s1.conn, !.txMode = s1.mode]

TxStatement(st, sql, fault, F) ==
    LET s1 == Call(st, "statement", st.txConn, sql)
    IN  IF fault \in F THEN Raise(s1, "stmt_error") ELSE s1

\* the assignment of _transaction_id and the txn.begin event that end begin()
BeginRecord(st) ==
    IF dialect = "mariadb" THEN st
    ELSE emit_event([st EXCEPT !.txId = st.nextTx, !.nextTx = @ + 1],
                    "txn.begin", "", st.nextTx, None, TRUE)

\* begin(): what follows the connection branch, per executor
BeginStatements(st, iso, F) ==
    LET s0 == IF dialect = "cockroachdb"
              THEN IF st.connAC[st.txConn] # "absent"
                   THEN [st EXCEPT !.txPrevAC = st.connAC[st.txConn],
                                   !.connAC[st.txConn] = "false"]
                   ELSE [st EXCEPT !.txPrevAC = "absent"]
              ELSE st
        s1 == IF dialect # "sqlite" /\ iso # "none"
              THEN TxStatement(s0, "SET TRANSACTION ISOLATION LEVEL", "setiso", F)
              ELSE s0
        s2 == IF s1.raised # "none" \/ dialect = "cockroachdb" THEN s1
              ELSE TxStatement(s1, IF dialect = "sqlite" THEN "BEGIN"
                                   ELSE "START TRANSACTION", "stmt", F)
    IN  IF s2.raised # "none" THEN s2 ELSE BeginRecord(s2)

\* begin() without the "Transaction already active." check
begin_reentrant(st, iso, F, ac) ==
    IF ensure_open(st).raised # "none" THEN ensure_open(st)
    ELSE IF dialect = "sqlite" /\ iso = "invalid" THEN Raise(st, "invalid_isolation")
    ELSE LET s1 == BeginSource(st, F, ac)
         IN  IF s1.raised # "none" THEN s1 ELSE BeginStatements(s1, iso, F)

begin(st, iso, F, ac) ==
    IF ensure_open(st).raised # "none" THEN ensure_open(st)
    ELSE IF has_active_transaction(st) THEN Raise(st, "already_active")
    ELSE IF dialect = "sqlite" /\ iso = "invalid" THEN Raise(st, "invalid_isolation")
    ELSE LET s1 == BeginSource(st, F, ac)
         IN  IF s1.raised # "none" THEN s1 ELSE BeginStatements(s1, iso, F)

finalize_transaction(st) ==
    IF st.txConn = None THEN st
    ELSE release_connection(
             [st EXCEPT !.txConn = None, !.txMode = "none",
                        !.txPrevAC = "absent", !.txId = None],
             st.txConn, st.txMode)

\* the try block of commit() / rollback(): the driver call, the autocommit
\* restore (CockroachExecutor) and the event
EndTry(st, which, F) ==
    LET s1 == Call(st, which, st.txConn, "")
    IN  IF which \in F THEN Raise(s1, IF which = "commit" THEN "commit_error"
                                      ELSE "rollback_error")
        ELSE LET s2 == IF dialect = "cockroachdb" /\ s1.txPrevAC # "absent"
                          /\ s1.connAC[s1.txConn] # "absent"
                       THEN [s1 EXCEPT !.connAC[s1.txConn] = s1.txPrevAC]
                       ELSE s1
             IN  EmitLifecycle(s2, IF which = "commit" THEN "txn.commit"
                                   ELSE "txn.rollback", s2.txId, None)

\* commit() / rollback() finalizing after the try block instead of in its
\* finally clause
EndTransaction_no_finally(st, which, F) ==
    LET r == require_active_transaction_connection(st)
    IN  IF r.raised # "none" THEN r
        ELSE LET t == EndTry(r, which, F)
             IN  IF t.raised # "none" THEN t ELSE finalize_transaction(t)

EndTransaction(st, which, F) ==
    LET r == require_active_transaction_connection(st)
    IN  IF r.raised # "none" THEN r
        ELSE LET t == EndTry(r, which, F)
             IN  Finally(t, finalize_transaction(EnterFinally(t)))

commit(st, F) == EndTransaction(st, "commit", F)

\* rollback() ending the transaction with the driver's commit
rollback_commits(st, F) == EndTransaction(st, "commit", F)

rollback(st, F) == EndTransaction(st, "rollback", F)

SavepointEvent(sql) ==
    CASE sql = "SAVEPOINT" -> "txn.savepoint.create"
      [] sql = "ROLLBACK TO SAVEPOINT" -> "txn.savepoint.rollback"
      [] OTHER -> "txn.savepoint.release"

\* savepoint(n), rollback_to_savepoint(n), release_savepoint(n)
savepoint_op(st, sql, F) ==
    LET r == require_active_transaction_connection(st)
    IN  IF r.raised # "none" THEN r
        ELSE LET s1 == TxStatement(r, sql, "stmt", F)
             IN  IF s1.raised # "none" THEN s1
                 ELSE EmitLifecycle(s1, SavepointEvent(sql), s1.txId, None)

\* close(): the rollback of an open transaction with its `except: pass`
\* close() letting the rollback error through: no `except Exception: pass`
CloseRollback_propagates(st, F) ==
    LET s1 == Call(st, "rollback", st.txConn, "")
    IN  IF "rollback" \in F THEN Raise(s1, "rollback_error")
        ELSE EmitLifecycle(s1, "txn.rollback", s1.txId, None)

CloseRollback(st, F) ==
    LET s1 == Call(st, "rollback", st.txConn, "")
    IN  IF "rollback" \in F THEN s1
        ELSE EmitLifecycle(s1, "txn.rollback", s1.txId, None)

\* close() that never records that it ran
close_forgets_flag(st, F) ==
    IF st.closed THEN st
    ELSE IF st.txConn # None
    THEN finalize_transaction(CloseRollback(st, F))
    ELSE st

close(st, F) ==
    IF st.closed THEN st
    ELSE LET s1 == IF st.txConn # None
                   THEN finalize_transaction(CloseRollback(st, F))
                   ELSE st
         IN  IF s1.raised # "none" THEN s1 ELSE [s1 EXCEPT !.closed = TRUE]

\* ------------------------------------------------------------- error model
\* A driver exception, as normalize_execution_error reads it: the attributes
\* sqlstate, pgcode and code, and str(exc).  An attribute is a string,
\* "<absent>" (no such attribute, or None) or "<int>" (a value that is not a
\* string).
IsStr(a) == a \notin {"<absent>", "<int>"}

UpperLetters ==
    <<"A", "B", "C", "D", "E", "F", "G", "H", "I", "J", "K", "L", "M",
      "N", "O", "P", "Q", "R", "S", "T", "U", "V", "W", "X", "Y", "Z">>

LowerLetters ==
    <<"a", "b", "c", "d", "e", "f", "g", "h", "i", "j", "k", "l", "m",
      "n", "o", "p", "q", "r", "s", "t", "u", "v", "w", "x", "y", "z">>

\* character ch with the letters of `from` replaced by those of `to`
MapChar(ch, from, to) ==
    IF \E i \in 1..Len(from) : from[i] = ch
    THEN to[CHOOSE i \in 1..Len(from) : from[i] = ch]
    ELSE ch

RECURSIVE MapString(_, _, _)
MapString(str, from, to) ==
    IF Len(str) = 0 THEN str
    ELSE MapChar(SubSeq(str, 1, 1), from, to)
            \o MapString(SubSeq(str, 2, Len(str)), from, to)

\* str.lower() and str.upper()
lower(str) == MapString(str, UpperLetters, LowerLetters)

upper(str) == MapString(str, LowerLetters, UpperLetters)

\* `pat in str`
Contains(str, pat) ==
    \E i \in 1..(Len(str) - Len(pat) + 1) :
        SubSeq(str, i, i + Len(pat) - 1) = pat

\* sqlstate[:2]
Prefix2(str) == SubSeq(str, 1, IF Len(str) < 2 THEN Len(str) ELSE 2)

\* _extract_sqlstate: "<absent>" stands for the None it returns
extract_sqlstate(e) ==
    IF IsStr(e.sqlstate) /\ e.sqlstate # "" THEN upper(e.sqlstate)
    ELSE IF IsStr(e.pgcode) /\ e.pgcode # "" THEN upper(e.pgcode)
    ELSE IF IsStr(e.code) /\ Len(e.code) = 5 THEN upper(e.code)
    ELSE "<absent>"

deadlock_states == {"40P01", "1213"}
serialization_states == {"40001"}
lock_timeout_states == {"55P03", "57014", "1205"}
integrity_prefixes == {"23"}
programming_prefixes == {"42"}

\* normalize_execution_error deciding by the SQLSTATE alone whenever the
\* SQLSTATE names a kind, and by the message otherwise
ErrorKind_sqlstate_first(sqlstate, message) ==
    IF sqlstate \in deadlock_states THEN "DeadlockError"
    ELSE IF sqlstate \in serialization_states THEN "SerializationError"
    ELSE IF sqlstate \in lock_timeout_states THEN "LockTimeoutError"
    ELSE IF sqlstate # "<absent>" /\ Prefix2(sqlstate) \in integrity_prefixes
    THEN "IntegrityConstraintError"
    ELSE IF sqlstate # "<absent>" /\ Prefix2(sqlstate) \in programming_prefixes
    THEN "ProgrammingExecutionError"
    ELSE IF Contains(message, "deadlock") THEN "DeadlockError"
    ELSE IF \/ Contains(message, "serialization failure")
            \/ Contains(message, "could not serialize")
    THEN "SerializationError"
    ELSE IF \/ Contains(message, "lock wait timeout")
            \/ Contains(message, "database is locked")
            \/ Contains(message, "lock timeout")
    THEN "LockTimeoutError"
    ELSE IF \/ Contains(message, "connection timed out")
            \/ Contains(message, "timed out")
            \/ Contains(message, "login timeout")
            \/ Contains(message, "could not connect")
            \/ Contains(message, "connection refused")
    THEN "ConnectionTimeoutError"
    ELSE IF \/ Contains(message, "unique constraint")
            \/ Contains(message, "foreign key constraint")
            \/ Contains(message, "duplicate key")
    THEN "IntegrityConstraintError"
    ELSE IF \/ Contains(message, "syntax error")
            \/ Contains(message, "invalid identifier")
            \/ Contains(message, "unknown column")
    THEN "ProgrammingExecutionError"
    ELSE "ExecutionError"

\* the class normalize_execution_error instantiates
ErrorKind(sqlstate, message) ==
    IF sqlstate \in deadlock_states \/ Contains(message, "deadlock")
    THEN "DeadlockError"
    ELSE IF \/ sqlstate \in serialization_states
            \/ Contains(message, "serialization failure")
            \/ Contains(message, "could not serialize")
    THEN "SerializationError"
    ELSE IF \/ sqlstate \in lock_timeout_states
            \/ Contains(message, "lock wait timeout")
            \/ Contains(message, "database is locked")
            \/ Contains(message, "lock timeout")
    THEN "LockTimeoutError"
    ELSE IF \/ Contains(message, "connection timed out")
            \/ Contains(message, "timed out")
            \/ Contains(message, "login timeout")
            \/ Contains(message, "could not connect")
            \/ Contains(message, "connection refused")
    THEN "ConnectionTimeoutError"
    ELSE IF sqlstate # "<absent>" /\ Prefix2(sqlstate) \in integrity_prefixes
    THEN "IntegrityConstraintError"
    ELSE IF \/ Contains(message, "unique constraint")
            \/ Contains(message, "foreign key constraint")
            \/ Contains(message, "duplicate key")
    THEN "IntegrityConstraintError"
    ELSE IF sqlstate # "<absent>" /\ Prefix2(sqlstate) \in programming_prefixes
    THEN "ProgrammingExecutionError"
    ELSE IF \/ Contains(message, "syntax error")
            \/ Contains(message, "invalid identifier")
            \/ Contains(message, "unknown column")
    THEN "ProgrammingExecutionError"
    ELSE "ExecutionError"

\* normalize_execution_error(dialect=..., operation=..., exc=e)
normalize_execution_error(op, e) ==
    LET sqlstate == extract_sqlstate(e)
    IN  [kind |-> ErrorKind(sqlstate, lower(e.message)),
         dialect |-> dialect, operation |-> op, sqlstate |-> sqlstate,
         original_message |-> e.message]

\* the subclasses of TransientExecutionError
TransientKinds ==
    {"DeadlockError", "SerializationError", "LockTimeoutError",
     "ConnectionTimeoutError"}

\* what drivers put into sqlstate / pgcode / code
SqlstateAttrs ==
    {"<absent>", "<int>", "", "40p01", "1213", "40001", "55P03", "57014",
     "1205", "23505", "42601", "08006"}

PgcodeAttrs == {"<absent>", "40001"}

CodeAttrs == {"<absent>", "1213", "42601"}

\* pieces of driver messages: one per message trigger, and one that
\* triggers nothing
Fragments ==
    <<"Deadlock found when trying to get lock",
      "serialization failure",
      "could not serialize access due to concurrent update",
      "Lock wait timeout exceeded",
      "database is locked",
      "canceling statement due to lock timeout",
      "connection timed out",
      "Login timeout expired",
      "could not connect to server",
      "Connection refused",
      "UNIQUE constraint failed: t.id",
      "violates foreign key constraint",
      "duplicate key value",
      "syntax error at or near",
      "invalid identifier",
      "Unknown column 'x' in 'field list'",
      "operation timed out",
      "no such table: missing">>

\* the fragments chosen by the index set S, in order, joined by "; "
RECURSIVE JoinFragments(_, _)
JoinFragments(S, i) ==
    IF i > Len(Fragments) THEN ""
    ELSE IF i \in S
    THEN LET rest == JoinFragments(S, i + 1)
         IN  IF rest = "" THEN Fragments[i] ELSE Fragments[i] \o "; " \o rest
    ELSE JoinFragments(S, i + 1)

Messages ==
    {JoinFragments(S, 1) :
        S \in {T \in SUBSET (1..Len(Fragments)) : Cardinality(T) <= MaxPhrases}}

\* an attribute _extract_sqlstate does not get to read is left absent
DriverExceptions ==
    {e \in [sqlstate : SqlstateAttrs, pgcode : PgcodeAttrs, code : CodeAttrs,
            message : Messages] :
        /\ (IsStr(e.sqlstate) /\ e.sqlstate # "")
              => (e.pgcode = "<absent>" /\ e.code = "<absent>")
        /\ e.pgcode # "<absent>" => e.code = "<absent>"}

\* no exception was given to normalize_execution_error
NoException ==
    [sqlstate |-> "<absent>", pgcode |-> "<absent>", code |-> "<absent>",
     message |-> ""]

NotNormalized ==
    [kind |-> "none", dialect |-> "", operation |-> "", sqlstate |-> "",
     original_message |-> ""]

\* the call did not go through run_with_retry
NoRetry ==
    [policy |-> [max_attempts |-> 0, base_delay |-> 0,
                 backoff_multiplier |-> 1, max_delay |-> 0],
     attempts |-> 0, sleeps |-> <<>>, log |-> <<>>, error |-> NotNormalized]

\* every ExecutionError class
ErrorKinds ==
    TransientKinds \cup {"IntegrityConstraintError",
                         "ProgrammingExecutionError", "ExecutionError"}

\* -------------------------------------------------------------------- retry
\* RetryPolicy, with delays counted in whole units: the policies with an
\* even max_attempts never sleep (base_delay = 0), the others start at 1
RetryPolicies ==
    {p \in [max_attempts : 1..MaxAttempts, base_delay : {0, 1},
            backoff_multiplier : {2}, max_delay : {3}] :
        p.base_delay = p.max_attempts % 2}

\* the valid policies the backoff is computed for: max_attempts >= 1,
\* base_delay >= 0, max_delay >= 0, backoff_multiplier >= 1
BackoffPolicies ==
    [max_attempts : 1..(MaxAttempts + 1), base_delay : {0, 1, 2},
     backoff_multiplier : {1, 2, 3, 4}, max_delay : {0, 1, 3}]

\* the call was not made through run_with_retry
NoPolicy ==
    [max_attempts |-> 0, base_delay |-> 0, backoff_multiplier |-> 1,
     max_delay |-> 0]

RECURSIVE Power(_, _)
Power(b, n) == IF n = 0 THEN 1 ELSE b * Power(b, n - 1)

\* float ** int: the power, or OverflowError when it is out of the range
\* of a float
float_pow(b, n) ==
    With(Power(b, n), LAMBDA p :
        IF p > FloatMax THEN [raised |-> "OverflowError", value |-> 0]
        ELSE [raised |-> "", value |-> p])

\* min(a, b)
min(a, b) == IF b < a THEN b ELSE a

\* _compute_delay without the cap of max_delay_seconds
compute_delay_uncapped(policy, attempt) ==
    With(float_pow(policy.backoff_multiplier, attempt - 1), LAMBDA p :
        IF p.raised # "" THEN p
        ELSE [p EXCEPT !.value = policy.base_delay * p.value])

\* _compute_delay: the delay, or the exception the power raised
compute_delay(policy, attempt) ==
    With(float_pow(policy.backoff_multiplier, attempt - 1), LAMBDA p :
        IF p.raised # "" THEN p
        ELSE [p EXCEPT !.value = min(policy.base_delay * p.value,
                                     policy.max_delay)])

\* what drivers and hooks raise in the retried operations: the hook or
\* connect() a connection timeout, the statement a deadlock reported by
\* SQLSTATE or a constraint violation, the commit a lock timeout reported by
\* message only
DriverError(sqlstate, message) ==
    [sqlstate |-> sqlstate, pgcode |-> "<absent>", code |-> "<absent>",
     message |-> message]

RetriedExceptions(f) ==
    CASE f = "acquire" -> {DriverError("<absent>", "Connection timed out")}
      [] f = "stmt" -> {DriverError("40P01", "deadlock detected"),
                        DriverError("23505", "duplicate key value")}
      [] OTHER -> {DriverError("<absent>", "database is locked")}

\* the exception object behind the outcome `raised` of an operation: the
\* driver's or hook's exception e, or an exception the executor or the
\* compiler raised itself
RaisedException(raised, e) ==
    IF raised \in {"acquire_error", "stmt_error", "commit_error"} THEN e
    ELSE [sqlstate |-> "<absent>", pgcode |-> "<absent>", code |-> "<absent>",
          message |-> IF raised = "closed" THEN "Executor is closed."
                      ELSE "Unsupported node type"]

\* operation(): the lambda handed to run_with_retry
Operation(st, op, arg, inp) ==
    IF op = "execute_many"
    THEN execute_many(st, IF arg = "empty" THEN 0 ELSE 1, inp.faults, inp.ac)
    ELSE execute(st, op, arg, inp.faults, inp.ac)

\* the record of one invocation of operation(): its input and what it
\* raised ("none" when it returned)
Attempt(r0, inp) ==
    [faults |-> inp.faults, exc |-> inp.exc, ac |-> inp.ac,
     raised |-> r0.raised]

\* one pass of the loop body has run operation() with input inp and got
\* frame r: return, give up or schedule the next attempt.  The result is
\* the frame to continue from; `raised` = "retry" asks for another pass.
\* An exception raised by _compute_delay leaves the except block, and with
\* it run_with_retry, as it is.
AfterAttempt_retries_everything(r0, op, policy, attempt, inp) ==
    With([r0 EXCEPT !.attempts = @ + 1, !.log = Append(@, Attempt(r0, inp))], LAMBDA r :
        IF r.raised = "none" THEN r
        ELSE With(normalize_execution_error(op, RaisedException(r.raised, inp.exc)), LAMBDA n :
             IF attempt >= policy.max_attempts
             THEN [emit_retry_event(r, "retry.giveup", op, attempt,
                                   n.kind \in TransientKinds)
                      EXCEPT !.raised = n.kind, !.error = n]
             ELSE With(compute_delay(policy, attempt), LAMBDA delay :
                  IF delay.raised # "" THEN [r EXCEPT !.raised = delay.raised]
                  ELSE [emit_retry_event(r, "retry.scheduled", op, attempt,
                                         n.kind \in TransientKinds)
                           EXCEPT !.raised = "retry",
                                  !.sleeps = IF delay.value > 0
                                             THEN Append(@, delay.value)
                                             ELSE @])))

\* run_with_retry raising the exception of the operation as it came when
\* it gives up
AfterAttempt_raises_raw(r0, op, policy, attempt, inp) ==
    With([r0 EXCEPT !.attempts = @ + 1, !.log = Append(@, Attempt(r0, inp))], LAMBDA r :
        IF r.raised = "none" THEN r
        ELSE With(normalize_execution_error(op, RaisedException(r.raised, inp.exc)), LAMBDA n :
             IF attempt >= policy.max_attempts \/ n.kind \notin TransientKinds
             THEN [emit_retry_event(r, "retry.giveup", op, attempt,
                                   n.kind \in TransientKinds)
                      EXCEPT !.error = n]
             ELSE With(compute_delay(policy, attempt), LAMBDA delay :
                  IF delay.raised # "" THEN [r EXCEPT !.raised = delay.raised]
                  ELSE [emit_retry_event(r, "retry.scheduled", op, attempt,
                                         n.kind \in TransientKinds)
                           EXCEPT !.raised = "retry",
                                  !.sleeps = IF delay.value > 0
                                             THEN Append(@, delay.value)
                                             ELSE @])))

AfterAttempt(r0, op, policy, attempt, inp) ==
    With([r0 EXCEPT !.attempts = @ + 1, !.log = Append(@, Attempt(r0, inp))], LAMBDA r :
        IF r.raised = "none" THEN r
        ELSE With(normalize_execution_error(op, RaisedException(r.raised, inp.exc)), LAMBDA n :
             IF attempt >= policy.max_attempts \/ n.kind \notin TransientKinds
             THEN [emit_retry_event(r, "retry.giveup", op, attempt,
                                   n.kind \in TransientKinds)
                      EXCEPT !.raised = n.kind, !.error = n]
             ELSE With(compute_delay(policy, attempt), LAMBDA delay :
                  IF delay.raised # "" THEN [r EXCEPT !.raised = delay.raised]
                  ELSE [emit_retry_event(r, "retry.scheduled", op, attempt,
                                         n.kind \in TransientKinds)
                           EXCEPT !.raised = "retry",
                                  !.sleeps = IF delay.value > 0
                                             THEN Append(@, delay.value)
                                             ELSE @])))

\* run_with_retry from attempt number `attempt` on: the frames it can end
\* in, one for every choice of the inputs of the attempts it makes
RECURSIVE run_with_retry(_, _, _, _, _, _)
run_with_retry(st, op, arg, policy, attempt, Inputs) ==
    UNION {IF r.raised = "retry"
           THEN run_with_retry([r EXCEPT !.raised = "none"], op, arg,
                               policy, attempt + 1, Inputs)
           ELSE {r} :
              r \in {AfterAttempt(Operation(st, op, arg, inp), op, policy,
                                  attempt, inp) : inp \in Inputs}}

\* ---------------------------------------------------------------- database
\* The database behind the driver, with standard transaction semantics: a
\* write on a connection in autocommit mode is committed at once, any other
\* write stays pending on its connection until that connection's commit()
\* publishes it or its rollback() / close() discards it; a read sees the
\* committed rows and the pending rows of its own connection.  A driver call
\* that raises has no effect.  Handing a connection to the release hook
\* leaves its pending rows alone.
Rows == 1..MaxRows

\* the effect of the i-th driver call of a method on the database d; `ac`
\* gives the autocommit attribute of each connection during the method and
\* `failed` says whether the call raised
DbStep(d, call, ac, failed) ==
    IF failed \/ call.conn = None THEN d
    ELSE IF call.fn = "statement" /\ call.arg \in WriteOps
    THEN IF d.nextRow \notin Rows THEN d
         ELSE IF ac[call.conn] = "true"
         THEN [d EXCEPT !.db = @ \cup {d.nextRow}, !.nextRow = @ + 1]
         ELSE [d EXCEPT !.pending[call.conn] = @ \cup {d.nextRow},
                        !.nextRow = @ + 1]
    ELSE IF call.fn = "statement" /\ call.arg \in ReadOps
    THEN [d EXCEPT !.result = d.db \cup d.pending[call.conn]]
    ELSE IF call.fn = "commit"
    THEN [d EXCEPT !.db = @ \cup d.pending[call.conn],
                   !.pending[call.conn] = {}]
    ELSE IF call.fn \in {"rollback", "close"}
    THEN [d EXCEPT !.pending[call.conn] = {}]
    ELSE d

\* the driver call raised: the fault point of the method call it belongs to
CallFailed(call, F) ==
    \/ call.fn = "statement" /\ call.arg = "SET TRANSACTION ISOLATION LEVEL"
          /\ "setiso" \in F
    \/ call.fn = "statement" /\ call.arg # "SET TRANSACTION ISOLATION LEVEL"
          /\ "stmt" \in F
    \/ call.fn = "commit" /\ "commit" \in F
    \/ call.fn = "rollback" /\ "rollback" \in F

RECURSIVE RunDb(_, _, _, _)
RunDb(d, cs, ac, F) ==
    IF cs = <<>> THEN d
    ELSE RunDb(DbStep(d, Head(cs), ac, CallFailed(Head(cs), F)),
               Tail(cs), ac, F)

\* ------------------------------------------------------------------ actions
\* autocommit attribute of a connection handed out by the hook or the driver;
\* only CockroachExecutor ever reads it
NewConnAC == IF dialect = "cockroachdb" THEN AutocommitValues ELSE {"absent"}

\* the call would ask the hook / the driver for a connection
NeedsFresh == ~closed /\ txConn = None /\ connection = None

CanSource == NeedsFresh => nextConn \in FreshConns

CanBegin == (~closed /\ txConn = None /\ dialect # "mariadb") => nextTx <= MaxTx

OpRecord(name, arg, F) ==
    [name |-> name, arg |-> arg, faults |-> F,
     txBefore |-> txConn, txModeBefore |-> txMode, txIdBefore |-> txId,
     txRowsBefore |-> IF txConn # None THEN pending[txConn] ELSE {},
     closedBefore |-> closed]

\* the method returns or raises: its frame becomes the state
Finish(r, name, arg, F) ==
    /\ closed' = r.closed
    /\ txConn' = r.txConn
    /\ txMode' = r.txMode
    /\ txId' = r.txId
    /\ txPrevAC' = r.txPrevAC
    /\ nextConn' = r.nextConn
    /\ nextTx' = r.nextTx
    /\ connAC' = r.connAC
    /\ acquired' = r.acquired
    /\ opened' = r.opened
    /\ released' = r.released
    /\ connClosed' = r.connClosed
    /\ calls' = r.calls
    /\ events' = r.events
    /\ observations' = r.observations
    /\ outcome' = r.raised
    /\ lastOp' = OpRecord(name, arg, F)
    /\ LET d == RunDb([db |-> db, pending |-> pending, nextRow |-> nextRow,
                       result |-> {}], r.calls, r.connAC, F)
       IN  /\ db' = d.db
           /\ pending' = d.pending
           /\ nextRow' = d.nextRow
           /\ result' = d.result
    /\ retry' = [policy |-> r.policy, attempts |-> r.attempts,
                 sleeps |-> r.sleeps, log |-> r.log, error |-> r.error]
    /\ UNCHANGED <<config, errors, compilation, observers>>

\* The fault points and the autocommit value an action enumerates are only
\* those the call can reach from the current state: a call that sources no
\* connection cannot fail to acquire, commit at the statement boundary or
\* release, and a call refused by its guard reaches no driver call at all.
FreshAC == IF NeedsFresh THEN NewConnAC ELSE {"absent"}

QueryFaults(op) ==
    IF closed THEN {}
    ELSE IF ~NeedsFresh THEN {"stmt"}
    ELSE IF op \in ReadOps THEN {"acquire", "stmt"}
    ELSE {"acquire", "stmt", "commit"}

BeginFaults ==
    IF closed \/ txConn # None THEN {}
    ELSE (IF NeedsFresh THEN {"acquire"} ELSE {})
         \cup (IF dialect = "sqlite" THEN {} ELSE {"setiso"})
         \cup (IF dialect = "cockroachdb" THEN {} ELSE {"stmt"})

EndFaults(which) ==
    IF closed \/ txConn = None THEN {} ELSE {which}

SavepointFaults == IF closed \/ txConn = None THEN {} ELSE {"stmt"}

Execute ==
    /\ CanSource
    /\ \E op \in {"execute", "fetch_all", "fetch_one"}, q \in QueryInputs :
       \E F \in SUBSET QueryFaults(op), ac \in FreshAC :
           Finish(execute(Frame, op, q, F, ac), op, q, F)

ExecuteMany ==
    /\ CanSource
    /\ \E n \in 0..MaxParamSets :
       \E F \in SUBSET QueryFaults("execute_many"), ac \in FreshAC :
           Finish(execute_many(Frame, n, F, ac), "execute_many",
                  IF n = 0 THEN "empty" ELSE "nonempty", F)

ExecuteRaw ==
    /\ CanSource
    /\ \E F \in SUBSET QueryFaults("execute_raw"), ac \in FreshAC :
           Finish(execute_raw(Frame, F, ac), "execute_raw", "", F)

Begin ==
    /\ CanSource
    /\ CanBegin
    /\ \E iso \in IsolationInputs, F \in SUBSET BeginFaults, ac \in FreshAC :
           Finish(begin(Frame, iso, F, ac), "begin", iso, F)

Commit ==
    \E F \in SUBSET EndFaults("commit") :
        Finish(commit(Frame, F), "commit", "", F)

Rollback ==
    \E F \in SUBSET EndFaults("rollback") :
        Finish(rollback(Frame, F), "rollback", "", F)

SavepointSql == {"SAVEPOINT", "ROLLBACK TO SAVEPOINT", "RELEASE SAVEPOINT"}

Savepoint ==
    \E sql \in SavepointSql, F \in SUBSET SavepointFaults :
        Finish(savepoint_op(Frame, sql, F), "savepoint", sql, F)

Close ==
    \E F \in SUBSET EndFaults("rollback") :
        Finish(close(Frame, F), "close", "", F)

\* the executor after construction, in front of a driver that has handed
\* out nothing yet
InitExecutor ==
    /\ dialect \in Dialects
    /\ connection \in {None, SuppliedConn}
    /\ acquireHook \in BOOLEAN
    /\ releaseHook \in BOOLEAN
    \* a release hook without an acquire hook is never consulted
    /\ releaseHook => acquireHook
    /\ closed = FALSE
    /\ txConn = None
    /\ txMode = "none"
    /\ txId = None
    /\ txPrevAC = "absent"
    /\ nextConn = 2
    /\ nextTx = 1
    /\ \E ac \in NewConnAC :
           connAC = [c \in AllConns |->
                        IF c = SuppliedConn /\ connection # None THEN ac ELSE "absent"]
    /\ acquired = {}
    /\ opened = {}
    /\ released = [c \in AllConns |-> 0]
    /\ connClosed = [c \in AllConns |-> 0]
    /\ lastOp = [name |-> "init", arg |-> "", faults |-> {},
                 txBefore |-> None, txModeBefore |-> "none", txIdBefore |-> None,
                 txRowsBefore |-> {}, closedBefore |-> FALSE]
    /\ db = {}
    /\ pending = [c \in AllConns |-> {}]
    /\ calls = <<>>
    /\ events = <<>>
    /\ observations = <<>>
    /\ result = {}
    /\ retry = NoRetry
    /\ outcome = "none"

\* the retried operation would ask the hook / the driver for a connection
\* at every attempt
CanSourceAttempts(n) == NeedsFresh => (nextConn + n - 1) \in FreshConns

\* the inputs of one attempt: at most one fault point and the exception
\* raised there; ac is the autocommit attribute of the connections the hook
\* or the driver hands out during the call
AttemptInputs(op, ac) ==
    {[faults |-> {}, exc |-> NoException, ac |-> ac]}
    \cup UNION {{[faults |-> {f}, exc |-> e, ac |-> ac] :
                    e \in RetriedExceptions(f)} : f \in QueryFaults(op)}

RetryFaults(r) == UNION {r.log[i].faults : i \in 1..Len(r.log)}

\* execute_with_retry, fetch_all_with_retry, fetch_one_with_retry
ExecuteWithPolicies(Policies) ==
    \E op \in {"execute", "fetch_all", "fetch_one"}, q \in QueryInputs,
       policy \in Policies, ac \in FreshAC :
        /\ CanSourceAttempts(policy.max_attempts)
        /\ \E r \in run_with_retry([Frame EXCEPT !.policy = policy], op, q,
                                    policy, 1, AttemptInputs(op, ac)) :
               Finish(r, op \o "_with_retry", q, RetryFaults(r))

ExecuteWithRetry == ExecuteWithPolicies(RetryPolicies)

ExecuteManyWithRetry ==
    \E n \in 0..MaxParamSets, policy \in RetryPolicies, ac \in FreshAC :
        /\ CanSourceAttempts(policy.max_attempts)
        /\ \E r \in run_with_retry([Frame EXCEPT !.policy = policy],
                                    "execute_many",
                                    IF n = 0 THEN "empty" ELSE "nonempty",
                                    policy, 1,
                                    AttemptInputs("execute_many", ac)) :
               Finish(r, "execute_many_with_retry",
                      IF n = 0 THEN "empty" ELSE "nonempty", RetryFaults(r))

Next ==
    \/ ExecuteMany
    \/ Execute
    \/ ExecuteRaw
    \/ Begin
    \/ Commit
    \/ Rollback
    \/ Savepoint
    \/ Close

\* ---------------------------------------------------------------- compilers
\* MySqlCompiler, MariaDbCompiler and PostgresCompiler: visitors that turn an
\* AST into a CompiledQuery (sql, params).  A visit method returns its SQL
\* text and appends the value of every LiteralNode it meets to self._params;
\* here a visit takes the list as it is (P) and yields the text, the list
\* as it has become and the exception raised ("" when it returned).
CompilerClasses == {"MySqlCompiler", "MariaDbCompiler", "PostgresCompiler"}

\* Python None in a field that holds a node
NoNode == [node |-> "None"]

\* Python None in limit / offset, which hold a count otherwise
NoInt == -1

\* Optional[list]: <<>> is None, <<l>> is the list l
NoList == <<>>

Given(l) == <<l>>

LiteralNode(value) == [node |-> "LiteralNode", value |-> value]

\* table = None
ColumnNode(name) == [node |-> "ColumnNode", name |-> name, table |-> ""]

BinaryOperationNode(left, operator, right) ==
    [node |-> "BinaryOperationNode", left |-> left, operator |-> operator,
     right |-> right]

\* schema = None, alias = None
TableNode(name) ==
    [node |-> "TableNode", name |-> name, schema |-> "", alias |-> ""]

Visited(sql, P) == [sql |-> sql, params |-> P, raised |-> ""]

Raised(exc, P) == [sql |-> "", params |-> P, raised |-> exc]

\* prefix + visit(...)
Prefixed(prefix, v) == IF v.raised # "" THEN v ELSE [v EXCEPT !.sql = prefix \o @]

\* sep.join(parts)
RECURSIVE join(_, _)
join(sep, parts) ==
    IF parts = <<>> THEN ""
    ELSE IF Len(parts) = 1 THEN parts[1]
    ELSE parts[1] \o sep \o join(sep, Tail(parts))

RECURSIVE visit(_, _)


\* v = self.visit(...) followed by the rest of the method, K: an exception
\* raised by the visit leaves the method
Then(v, K(_)) == IF v.raised # "" THEN v ELSE K(v)

\* [self.visit(item) for item in nodes]
RECURSIVE visit_each(_, _)
visit_each(nodes, P) ==
    IF nodes = <<>> THEN [sqls |-> <<>>, params |-> P, raised |-> ""]
    ELSE With(visit(Head(nodes), P), LAMBDA v :
         IF v.raised # ""
         THEN [sqls |-> <<>>, params |-> v.params, raised |-> v.raised]
         ELSE [visit_each(Tail(nodes), v.params) EXCEPT !.sqls = <<v.sql>> \o @])

\* ", ".join([self.visit(item) for item in nodes])
visit_list(nodes, P) ==
    With(visit_each(nodes, P), LAMBDA vs :
    [sql |-> join(", ", vs.sqls), params |-> vs.params, raised |-> vs.raised])

\* parts: list[str] of a statement method, with the list of parameters and
\* the exception in flight
Parts(P) == [parts |-> <<>>, params |-> P, raised |-> ""]

\* parts.append(text)
append(r, text) ==
    IF r.raised # "" THEN r ELSE [r EXCEPT !.parts = Append(@, text)]

\* parts.append(self.visit(...)), v the visit made from r.params
append_visit(r, v) ==
    IF r.raised # "" THEN r
    ELSE IF v.raised # "" THEN [r EXCEPT !.raised = v.raised, !.params = v.params]
    ELSE [parts |-> Append(r.parts, v.sql), params |-> v.params, raised |-> ""]

\* parts.append(self.visit(child))
append_node(r, child) == append_visit(r, visit(child, r.params))

\* parts.append(prefix + ", ".join([self.visit(item) for item in nodes]))
append_list(r, prefix, nodes) ==
    append_visit(r, Prefixed(prefix, visit_list(nodes, r.params)))

\* return " ".join(parts)
joined(r) ==
    IF r.raised # "" THEN Raised(r.raised, r.params)
    ELSE Visited(join(" ", r.parts), r.params)

visit_LiteralNode(node, P) ==
    Visited(IF compiler.class = "MariaDbCompiler" THEN "?" ELSE "%s",
            Append(P, node.value))

visit_ColumnNode(node, P) ==
    Visited(IF node.table # "" THEN node.table \o "." \o node.name
            ELSE node.name, P)

visit_BinaryOperationNode(node, P) ==
    Then(visit(node.left, P), LAMBDA left :
    Then(visit(node.right, left.params), LAMBDA right :
    Visited("(" \o left.sql \o " " \o node.operator \o " " \o right.sql \o ")",
            right.params)))

\* BETWEEN with the bounds visited high first
visit_BetweenNode_high_first(node, P) ==
    Then(visit(node.expression, P), LAMBDA expr :
    Then(visit(node.high, expr.params), LAMBDA high :
    Then(visit(node.low, high.params), LAMBDA low :
    Visited("(" \o expr.sql \o " "
                \o (IF node.negated THEN "NOT BETWEEN" ELSE "BETWEEN")
                \o " " \o low.sql \o " AND " \o high.sql \o ")",
            low.params))))

visit_BetweenNode(node, P) ==
    Then(visit(node.expression, P), LAMBDA expr :
    Then(visit(node.low, expr.params), LAMBDA low :
    Then(visit(node.high, low.params), LAMBDA high :
    Visited("(" \o expr.sql \o " "
                \o (IF node.negated THEN "NOT BETWEEN" ELSE "BETWEEN")
                \o " " \o low.sql \o " AND " \o high.sql \o ")",
            high.params))))

visit_InNode(node, P) ==
    Then(visit(node.expression, P), LAMBDA expr :
    Then(visit_list(node.values, expr.params), LAMBDA vals :
    Visited("(" \o expr.sql \o " " \o (IF node.negated THEN "NOT IN" ELSE "IN")
                \o " (" \o vals.sql \o "))", vals.params)))

\* PostgresCompiler leaves the alias out
visit_TableNode(node, P) ==
    LET name == IF node.schema # "" THEN node.schema \o "." \o node.name
                ELSE node.name
    IN  Visited(IF node.alias # "" /\ compiler.class # "PostgresCompiler"
                THEN name \o " AS " \o node.alias ELSE name, P)

visit_JoinClauseNode(node, P) ==
    Then(visit(node.left, P), LAMBDA left :
    Then(visit(node.right, left.params), LAMBDA right :
    Then(visit(node.on_condition, right.params), LAMBDA on :
    Visited(left.sql \o " " \o node.join_type \o " JOIN " \o right.sql
                \o " ON " \o on.sql, on.params))))

visit_WhereClauseNode(node, P) == Prefixed("WHERE ", visit(node.condition, P))

visit_GroupByClauseNode(node, P) ==
    Prefixed("GROUP BY ", visit_list(node.expressions, P))

visit_HavingClauseNode(node, P) == Prefixed("HAVING ", visit(node.condition, P))

visit_OrderByClauseNode(node, P) ==
    Then(visit(node.expression, P), LAMBDA v :
    [v EXCEPT !.sql = @ \o " " \o node.direction])

\* the mode is written in upper case by the callers here, so that
\* mode.strip().upper() is the mode
visit_LockClauseNode(node, P) ==
    IF node.mode \notin {"UPDATE", "SHARE"}
    THEN Raised("ValueError: lock mode must be 'UPDATE' or 'SHARE'.", P)
    ELSE IF node.nowait /\ node.skip_locked
    THEN Raised("ValueError: NOWAIT and SKIP LOCKED are mutually exclusive.", P)
    ELSE Visited("FOR " \o node.mode
                    \o (IF node.nowait THEN " NOWAIT" ELSE "")
                    \o (IF node.skip_locked THEN " SKIP LOCKED" ELSE ""), P)

visit_SubqueryNode(node, P) ==
    Then(visit(node.statement, P), LAMBDA v :
    Visited("(" \o v.sql \o ")"
                \o (IF node.alias # "" THEN " AS " \o node.alias ELSE ""),
            v.params))

visit_CTENode(node, P) ==
    Then(visit(node.subquery, P), LAMBDA v :
    Visited(node.name \o " AS (" \o v.sql \o ")", v.params))

\* ORDER BY of a SELECT with the ordering TOP implies added to the explicit one
OrderBySql_top_beside_explicit(node, P) ==
    With(IF node.order_by_clause # <<>>
         THEN Prefixed("ORDER BY ", visit_list(node.order_by_clause, P))
         ELSE Visited("", P), LAMBDA explicit :
    IF explicit.raised = ""
       /\ node.top_clause # NoNode /\ node.top_clause.on_expression # NoNode
    THEN Then(visit(node.top_clause.on_expression, explicit.params), LAMBDA v :
         Visited((IF explicit.sql = "" THEN "ORDER BY " ELSE explicit.sql \o ", ")
                     \o v.sql \o " " \o node.top_clause.direction,
                 v.params))
    ELSE explicit)

\* ORDER BY of a SELECT: the explicit list, else the one TOP implies
OrderBySql(node, P) ==
    With(IF node.order_by_clause # <<>>
         THEN Prefixed("ORDER BY ", visit_list(node.order_by_clause, P))
         ELSE Visited("", P), LAMBDA explicit :
    IF explicit.raised = "" /\ explicit.sql = ""
       /\ node.top_clause # NoNode /\ node.top_clause.on_expression # NoNode
    THEN Then(visit(node.top_clause.on_expression, explicit.params), LAMBDA v :
         Visited("ORDER BY " \o v.sql \o " " \o node.top_clause.direction,
                 v.params))
    ELSE explicit)

\* if order_by_sql: parts.append(order_by_sql)
append_order_by(r, node) ==
    With(OrderBySql(node, r.params), LAMBDA order_by :
    IF r.raised = "" /\ order_by.raised = "" /\ order_by.sql = ""
    THEN r ELSE append_visit(r, order_by))

\* SELECT accepting TOP together with LIMIT / OFFSET
visit_SelectStatementNode_top_with_limit(node, P) ==
    LET supports == compiler.class # "PostgresCompiler"
        r1 == IF supports /\ node.ctes # <<>>
              THEN append_list(Parts(P), "WITH ", node.ctes) ELSE Parts(P)
        r2 == append(r1, "SELECT")
        r3 == IF node.distinct THEN append(r2, "DISTINCT") ELSE r2
        r4 == append_list(r3, "", node.select_list)
        r5 == IF node.from_table # NoNode
              THEN append_node(append(r4, "FROM"), node.from_table) ELSE r4
        r6 == IF node.where_clause # NoNode
              THEN append_node(r5, node.where_clause) ELSE r5
        r7 == IF node.group_by # NoNode
              THEN append_node(r6, node.group_by) ELSE r6
        r8 == IF node.having_clause # NoNode
              THEN append_node(r7, node.having_clause) ELSE r7
        r9 == append_order_by(r8, node)
        r10 == IF node.limit # NoInt
               THEN append(r9, "LIMIT " \o ToString(node.limit)) ELSE r9
        r11 == IF node.offset # NoInt
               THEN append(r10, "OFFSET " \o ToString(node.offset)) ELSE r10
        r12 == IF node.top_clause # NoNode
               THEN append(r11, "LIMIT " \o ToString(node.top_clause.count))
               ELSE r11
        r13 == IF supports /\ node.lock_clause # NoNode
               THEN append_node(r12, node.lock_clause) ELSE r12
    IN  joined(r13)

\* PostgresCompiler.visit_SelectStatementNode reads neither ctes nor
\* lock_clause
visit_SelectStatementNode(node, P) ==
    IF node.top_clause # NoNode /\ (node.limit # NoInt \/ node.offset # NoInt)
    THEN Raised("ValueError: TOP clause is mutually exclusive with LIMIT and OFFSET.", P)
    ELSE
    LET supports == compiler.class # "PostgresCompiler"
        r1 == IF supports /\ node.ctes # <<>>
              THEN append_list(Parts(P), "WITH ", node.ctes) ELSE Parts(P)
        r2 == append(r1, "SELECT")
        r3 == IF node.distinct THEN append(r2, "DISTINCT") ELSE r2
        r4 == append_list(r3, "", node.select_list)
        r5 == IF node.from_table # NoNode
              THEN append_node(append(r4, "FROM"), node.from_table) ELSE r4
        r6 == IF node.where_clause # NoNode
              THEN append_node(r5, node.where_clause) ELSE r5
        r7 == IF node.group_by # NoNode
              THEN append_node(r6, node.group_by) ELSE r6
        r8 == IF node.having_clause # NoNode
              THEN append_node(r7, node.having_clause) ELSE r7
        r9 == append_order_by(r8, node)
        r10 == IF node.limit # NoInt
               THEN append(r9, "LIMIT " \o ToString(node.limit)) ELSE r9
        r11 == IF node.offset # NoInt
               THEN append(r10, "OFFSET " \o ToString(node.offset)) ELSE r10
        r12 == IF node.top_clause # NoNode
               THEN append(r11, "LIMIT " \o ToString(node.top_clause.count))
               ELSE r11
        r13 == IF supports /\ node.lock_clause # NoNode
               THEN append_node(r12, node.lock_clause) ELSE r12
    IN  joined(r13)

\* c.name for c in node.columns
RECURSIVE names(_)
names(columns) ==
    IF columns = <<>> THEN <<>> ELSE <<Head(columns).name>> \o names(Tail(columns))

\* the rows of an INSERT, one parenthesised group each; `expected` is the
\* width of the first row
RECURSIVE insert_rows(_, _, _)
insert_rows(rows, expected, P) ==
    IF rows = <<>> THEN [sqls |-> <<>>, params |-> P, raised |-> ""]
    ELSE IF Len(Head(rows)) # expected
    THEN [sqls |-> <<>>, params |-> P,
          raised |-> "ValueError: All insert rows must have the same number of values."]
    ELSE With(visit_list(Head(rows), P), LAMBDA v :
         IF v.raised # ""
         THEN [sqls |-> <<>>, params |-> v.params, raised |-> v.raised]
         ELSE [insert_rows(Tail(rows), expected, v.params)
                  EXCEPT !.sqls = <<"(" \o v.sql \o ")">> \o @])

compile_insert_values(node, P) ==
    IF (node.values # NoList) = (node.rows # NoList)
    THEN Raised("ValueError: Insert must provide exactly one of values or rows.", P)
    ELSE IF node.values # NoList
    THEN IF node.columns # <<>> /\ Len(node.columns) # Len(node.values[1])
         THEN Raised("ValueError: Insert columns and values must have the same length.", P)
         ELSE Then(visit_list(node.values[1], P), LAMBDA v :
              Visited("VALUES (" \o v.sql \o ")", v.params))
    ELSE LET rows == node.rows[1]
         IN  IF rows = <<>>
             THEN Raised("ValueError: Insert rows must include at least one row.", P)
             ELSE IF Len(rows[1]) = 0
             THEN Raised("ValueError: Insert rows cannot be empty.", P)
             ELSE IF node.columns # <<>> /\ Len(node.columns) # Len(rows[1])
             THEN Raised("ValueError: Insert columns and row values must have the same length.", P)
             ELSE With(insert_rows(rows, Len(rows[1]), P), LAMBDA vs :
                  IF vs.raised # "" THEN Raised(vs.raised, vs.params)
                  ELSE Visited("VALUES " \o join(", ", vs.sqls), vs.params))

\* col = VALUES(col) for col in clause.update_columns
RECURSIVE updates(_)
updates(columns) ==
    IF columns = <<>> THEN <<>>
    ELSE <<Head(columns) \o " = VALUES(" \o Head(columns) \o ")">>
            \o updates(Tail(columns))

\* MariaDbCompiler._compile_upsert_clause ignoring do_nothing
compile_upsert_clause_ignores_do_nothing(clause, P) ==
    IF clause.conflict_target # NoList
    THEN Raised("ValueError: MariaDB upsert does not accept conflict_target.", P)
    ELSE IF clause.update_columns = <<>>
    THEN Raised("ValueError: MariaDB upsert requires update_columns.", P)
    ELSE Visited("ON DUPLICATE KEY UPDATE "
                    \o join(", ", updates(clause.update_columns)), P)

compile_upsert_clause(clause, P) ==
    IF clause.conflict_target # NoList
    THEN Raised("ValueError: MariaDB upsert does not accept conflict_target.", P)
    ELSE IF clause.do_nothing
    THEN Raised("ValueError: MariaDB upsert does not support do_nothing.", P)
    ELSE IF clause.update_columns = <<>>
    THEN Raised("ValueError: MariaDB upsert requires update_columns.", P)
    ELSE Visited("ON DUPLICATE KEY UPDATE "
                    \o join(", ", updates(clause.update_columns)), P)

compile_returning_clause(clause, P) ==
    IF clause.expressions = <<>>
    THEN Raised("ValueError: RETURNING requires at least one expression.", P)
    ELSE Prefixed("RETURNING ", visit_list(clause.expressions, P))

\* MySqlCompiler and PostgresCompiler iterate node.values and know neither
\* rows nor the upsert and returning clauses; iterating None is a TypeError
visit_InsertStatementNode(node, P) ==
    LET cols == IF node.columns # <<>>
                THEN " (" \o join(", ", names(node.columns)) \o ")" ELSE ""
    IN  Then(visit(node.table, P), LAMBDA table :
        IF compiler.class # "MariaDbCompiler"
        THEN IF node.values = NoList
             THEN Raised("TypeError: 'NoneType' object is not iterable", table.params)
             ELSE Then(visit_list(node.values[1], table.params), LAMBDA vals :
                  Visited("INSERT INTO " \o table.sql \o cols
                              \o " VALUES (" \o vals.sql \o ")", vals.params))
        ELSE Then(compile_insert_values(node, table.params), LAMBDA values_sql :
             Then(IF node.upsert_clause # NoNode
                  THEN Prefixed(" ", compile_upsert_clause(
                           node.upsert_clause, values_sql.params))
                  ELSE Visited("", values_sql.params), LAMBDA upsert :
             Then(IF node.returning_clause # NoNode
                  THEN Prefixed(" ", compile_returning_clause(
                           node.returning_clause, upsert.params))
                  ELSE Visited("", upsert.params), LAMBDA returning :
             Visited("INSERT INTO " \o table.sql \o cols \o " "
                         \o values_sql.sql \o upsert.sql \o returning.sql,
                     returning.params)))))

\* parts.append(self._compile_returning_clause(clause))
append_returning(r, clause) ==
    append_visit(r, compile_returning_clause(clause, r.params))

\* only MariaDbCompiler reads returning_clause
visit_DeleteStatementNode(node, P) ==
    LET r1 == append_node(append(Parts(P), "DELETE FROM"), node.table)
        r2 == IF node.where_clause # NoNode
              THEN append_node(r1, node.where_clause) ELSE r1
        r3 == IF compiler.class = "MariaDbCompiler"
                 /\ node.returning_clause # NoNode
              THEN append_returning(r2, node.returning_clause) ELSE r2
    IN  joined(r3)

\* Visitor.visit: dispatch on the class of the node; generic_visit raises
\* for a class the compiler has no visit method for
visit(node, P) ==
    CASE node.node = "SelectStatementNode" -> visit_SelectStatementNode(node, P)
      [] node.node = "InsertStatementNode" -> visit_InsertStatementNode(node, P)
      [] node.node = "DeleteStatementNode" -> visit_DeleteStatementNode(node, P)
      [] node.node = "LiteralNode" -> visit_LiteralNode(node, P)
      [] node.node = "ColumnNode" -> visit_ColumnNode(node, P)
      [] node.node = "StarNode" -> Visited("*", P)
      [] node.node = "BinaryOperationNode" -> visit_BinaryOperationNode(node, P)
      [] node.node = "BetweenNode" -> visit_BetweenNode(node, P)
      [] node.node = "InNode" -> visit_InNode(node, P)
      [] node.node = "TableNode" -> visit_TableNode(node, P)
      [] node.node = "JoinClauseNode" -> visit_JoinClauseNode(node, P)
      [] node.node = "WhereClauseNode" -> visit_WhereClauseNode(node, P)
      [] node.node = "GroupByClauseNode" -> visit_GroupByClauseNode(node, P)
      [] node.node = "HavingClauseNode" -> visit_HavingClauseNode(node, P)
      [] node.node = "OrderByClauseNode" -> visit_OrderByClauseNode(node, P)
      [] node.node \in {"LockClauseNode", "SubqueryNode", "CTENode"}
            /\ compiler.class # "PostgresCompiler" ->
            CASE node.node = "LockClauseNode" -> visit_LockClauseNode(node, P)
              [] node.node = "SubqueryNode" -> visit_SubqueryNode(node, P)
              [] OTHER -> visit_CTENode(node, P)
      [] OTHER -> Raised("NotImplementedError: No visit_" \o node.node
                             \o " method defined", P)

\* compile() emptying the list it has instead of binding a new one
compile_clears_list(c, h, node) ==
    With(visit(node, <<>>), LAMBDA v :
    [compiler |-> c, heap |-> [h EXCEPT ![c.params] = v.params],
     raised |-> v.raised, sql |-> v.sql, params |-> c.params])

\* compile(): self._params = [] binds a list that did not exist before, the
\* visit fills it and the CompiledQuery returned holds that very list.  c is
\* the compiler, h the lists that exist (a list is known by its position
\* in h); when the visit raises, nothing is returned
compile(c, h, node) ==
    With(visit(node, <<>>), LAMBDA v :
    [compiler |-> [c EXCEPT !.params = Len(h) + 1],
     heap |-> Append(h, v.params),
     raised |-> v.raised, sql |-> v.sql, params |-> Len(h) + 1])

\* ------------------------------------------------------------ ASTs compiled
\* The Literal values of an AST are numbered in the order in which SQL
\* writes the clauses that hold them: WITH 11, select list 12, FROM .. ON
\* 13, WHERE 14 15, HAVING 16, ORDER BY 17 (or the expression of TOP 18),
\* INSERT values and rows 21 .. 24, RETURNING 31.
SelectLists ==
    {<<ColumnNode("name")>>,
     <<ColumnNode("id"), LiteralNode(12)>>}

CteLists ==
    {<<>>,
     <<[node |-> "CTENode", name |-> "recent",
        subquery |-> [node |-> "SelectStatementNode",
                      select_list |-> <<LiteralNode(11)>>, distinct |-> FALSE,
                      ctes |-> <<>>, from_table |-> NoNode,
                      where_clause |-> NoNode, group_by |-> NoNode,
                      having_clause |-> NoNode, order_by_clause |-> <<>>,
                      top_clause |-> NoNode, limit |-> NoInt, offset |-> NoInt,
                      lock_clause |-> NoNode]]>>}

FromTables ==
    {TableNode("users"),
     [node |-> "JoinClauseNode", left |-> TableNode("users"),
      right |-> TableNode("orders"),
      on_condition |-> BinaryOperationNode(ColumnNode("uid"), "=", LiteralNode(13)),
      join_type |-> "INNER"]}

WhereClauses ==
    {NoNode,
     [node |-> "WhereClauseNode",
      condition |-> BinaryOperationNode(ColumnNode("age"), ">", LiteralNode(14))],
     [node |-> "WhereClauseNode",
      condition |-> [node |-> "BetweenNode", expression |-> ColumnNode("age"),
                     low |-> LiteralNode(14), high |-> LiteralNode(15),
                     negated |-> FALSE]]}

\* group_by and having_clause
Groupings ==
    LET group == [node |-> "GroupByClauseNode",
                  expressions |-> <<ColumnNode("dept")>>]
        having == [node |-> "HavingClauseNode",
                   condition |-> BinaryOperationNode(ColumnNode("total"), ">",
                                                     LiteralNode(16))]
    IN  {[group_by |-> NoNode, having_clause |-> NoNode],
         [group_by |-> group, having_clause |-> NoNode],
         [group_by |-> group, having_clause |-> having]}

OrderByLists ==
    {<<>>,
     <<[node |-> "OrderByClauseNode",
        expression |-> [node |-> "InNode", expression |-> ColumnNode("rank"),
                        values |-> <<LiteralNode(17)>>, negated |-> FALSE],
        direction |-> "ASC"]>>}

\* top_clause, limit and offset
Windows ==
    LET top == [node |-> "TopClauseNode", count |-> 3,
                on_expression |-> BinaryOperationNode(ColumnNode("score"), "+",
                                                      LiteralNode(18)),
                direction |-> "DESC"]
        bare == [top EXCEPT !.on_expression = NoNode]
    IN  {[top_clause |-> NoNode, limit |-> NoInt, offset |-> NoInt],
         [top_clause |-> NoNode, limit |-> 0, offset |-> NoInt],
         [top_clause |-> NoNode, limit |-> 5, offset |-> 0],
         [top_clause |-> NoNode, limit |-> NoInt, offset |-> 4],
         [top_clause |-> top, limit |-> NoInt, offset |-> NoInt],
         [top_clause |-> bare, limit |-> NoInt, offset |-> NoInt],
         [top_clause |-> top, limit |-> 0, offset |-> NoInt],
         [top_clause |-> bare, limit |-> NoInt, offset |-> 0],
         [top_clause |-> bare, limit |-> 5, offset |-> 4]}

LockClauses ==
    {NoNode,
     [node |-> "LockClauseNode", mode |-> "UPDATE", nowait |-> FALSE,
      skip_locked |-> TRUE],
     [node |-> "LockClauseNode", mode |-> "EXCLUSIVE", nowait |-> FALSE,
      skip_locked |-> FALSE]}

SelectASTs ==
    {[node |-> "SelectStatementNode", select_list |-> s, distinct |-> d,
      ctes |-> c, from_table |-> f, where_clause |-> w,
      group_by |-> g.group_by, having_clause |-> g.having_clause,
      order_by_clause |-> o, top_clause |-> t.top_clause, limit |-> t.limit,
      offset |-> t.offset, lock_clause |-> l] :
        s \in SelectLists, d \in BOOLEAN, c \in CteLists, f \in FromTables,
        w \in WhereClauses, g \in Groupings, o \in OrderByLists,
        t \in Windows, l \in LockClauses}

InsertValues ==
    {NoList, Given(<<>>), Given(<<LiteralNode(21)>>),
     Given(<<LiteralNode(21), LiteralNode(22)>>)}

InsertRows ==
    {NoList, Given(<<>>), Given(<< <<>> >>), Given(<< <<>>, <<LiteralNode(21)>> >>),
     Given(<< <<LiteralNode(21)>> >>),
     Given(<< <<LiteralNode(21), LiteralNode(22)>> >>),
     Given(<< <<LiteralNode(21)>>, <<LiteralNode(22)>> >>),
     Given(<< <<LiteralNode(21), LiteralNode(22)>>, <<LiteralNode(23)>> >>),
     Given(<< <<LiteralNode(21)>>, <<LiteralNode(22), LiteralNode(23)>> >>),
     Given(<< <<LiteralNode(21), LiteralNode(22)>>,
              <<LiteralNode(23), LiteralNode(24)>> >>)}

InsertColumns ==
    {<<>>, <<ColumnNode("id")>>, <<ColumnNode("id"), ColumnNode("name")>>}

UpsertClauses ==
    {NoNode}
    \cup {[node |-> "UpsertClauseNode", conflict_target |-> t,
           do_nothing |-> n, update_columns |-> u] :
            t \in {NoList, Given(<<"id">>)}, n \in BOOLEAN,
            u \in {<<>>, <<"name">>, <<"name", "email">>}}

ReturningClauses ==
    {NoNode,
     [node |-> "ReturningClauseNode", expressions |-> <<>>],
     [node |-> "ReturningClauseNode",
      expressions |-> <<ColumnNode("id"), LiteralNode(31)>>]}

\* InsertStatementNode as the compilers' tests build it (table, columns and
\* values or rows); the upsert and returning clauses go to the compiler
\* that reads them
InsertASTs(class) ==
    {[node |-> "InsertStatementNode", table |-> TableNode("users"),
      values |-> v, rows |-> r, columns |-> c, upsert_clause |-> u,
      returning_clause |-> g] :
        v \in InsertValues, c \in InsertColumns, r \in InsertRows,
        u \in IF class = "MariaDbCompiler" THEN UpsertClauses ELSE {NoNode},
        g \in IF class = "MariaDbCompiler" THEN ReturningClauses ELSE {NoNode}}

DeleteASTs ==
    {[node |-> "DeleteStatementNode", table |-> TableNode("users"),
      where_clause |-> w, returning_clause |-> g] :
        w \in WhereClauses, g \in ReturningClauses}

ASTs(class) == SelectASTs \cup InsertASTs(class) \cup DeleteASTs

\* the ASTs handed one after the other to one compiler: compiled, refused
\* before any Literal is met, and refused after some have been met (the
\* lock mode by MySqlCompiler and MariaDbCompiler, the subquery by
\* PostgresCompiler)
Simple(s, f, w, t, l) ==
    [node |-> "SelectStatementNode", select_list |-> s, distinct |-> FALSE,
     ctes |-> <<>>, from_table |-> f, where_clause |-> w, group_by |-> NoNode,
     having_clause |-> NoNode, order_by_clause |-> <<>>,
     top_clause |-> t.top_clause, limit |-> t.limit, offset |-> t.offset,
     lock_clause |-> l]

ReusedASTs ==
    LET s1 == <<ColumnNode("name")>>
        s2 == <<ColumnNode("id"), LiteralNode(12)>>
        w1 == [node |-> "WhereClauseNode",
               condition |-> BinaryOperationNode(ColumnNode("age"), ">",
                                                 LiteralNode(14))]
        none == [top_clause |-> NoNode, limit |-> NoInt, offset |-> NoInt]
        both == [top_clause |-> [node |-> "TopClauseNode", count |-> 3,
                                 on_expression |-> NoNode, direction |-> "DESC"],
                 limit |-> 5, offset |-> NoInt]
        bad == [node |-> "LockClauseNode", mode |-> "EXCLUSIVE",
                nowait |-> FALSE, skip_locked |-> FALSE]
        sub == [node |-> "SubqueryNode", alias |-> "t",
                statement |-> Simple(s1, TableNode("users"), w1, none, NoNode)]
    IN  {Simple(s1, TableNode("users"), NoNode, none, NoNode),
         Simple(s2, TableNode("users"), w1, none, NoNode),
         Simple(s2, TableNode("users"), w1, both, NoNode),
         Simple(s2, TableNode("users"), w1, none, bad),
         Simple(s2, sub, NoNode, none, NoNode)}

\* asts is the list of ASTs a caller hands to one compiler, one compile()
\* call each; compiled records the calls made so far: the AST, the
\* exception raised ("" when the call returned), the sql and the identity
\* of the params list of the CompiledQuery returned, and `returned`, what
\* that list held when the call returned
NewCompiler(class) == [class |-> class, params |-> 1]

Compile ==
    /\ Len(compiled) < Len(asts)
    /\ \E node \in {asts[Len(compiled) + 1]} :
       \E r \in {compile(compiler, heap, node)} :
           /\ compiler' = r.compiler
           /\ heap' = r.heap
           /\ compiled' = Append(compiled,
                  [ast |-> node, raised |-> r.raised, sql |-> r.sql,
                   params |-> IF r.raised = "" THEN r.params ELSE 0,
                   returned |-> r.heap[r.params]])
    /\ UNCHANGED <<asts, executor, observers>>

RECURSIVE Tuples(_, _)
Tuples(S, n) ==
    IF n = 0 THEN {<<>>}
    ELSE {<<x>> \o t : x \in S, t \in Tuples(S, n - 1)}

NoCompilation ==
    /\ compiler = NewCompiler("MySqlCompiler")
    /\ heap = <<<<>>>>
    /\ asts = <<>>
    /\ compiled = <<>>

\* ---------------------------------------------------------------- adapters
\* a label of an event that may be None: NoLabel, or Label(s) for the str s
NoLabel == <<>>

Label(s) == <<s>>

\* the ExecutionEvent as the adapters read it: event, query_id,
\* transaction_id, success, duration_ms, the labels dialect, executor,
\* operation and error_type, and timestamp
ObservedEvent(event, q, tx, success, duration_ms, d, operation, error_type) ==
    [event |-> event, query_id |-> q,
     transaction_id |-> tx, success |-> success,
     duration_ms |-> duration_ms, dialect |-> d,
     executor |-> Label("SqliteExecutor"), operation |-> operation,
     error_type |-> error_type, timestamp |-> 1]

\* str.strip() for the blanks of the labels
RECURSIVE lstrip(_)
lstrip(str) ==
    IF str # "" /\ SubSeq(str, 1, 1) = " "
    THEN lstrip(SubSeq(str, 2, Len(str))) ELSE str

RECURSIVE rstrip(_)
rstrip(str) ==
    IF str # "" /\ SubSeq(str, Len(str), Len(str)) = " "
    THEN rstrip(SubSeq(str, 1, Len(str) - 1)) ELSE str

strip(str) == rstrip(lstrip(str))

normalize_label(value, fallback) ==
    IF value = NoLabel THEN fallback
    ELSE LET stripped == strip(value[1])
         IN  IF stripped # "" THEN stripped ELSE fallback

event_labels(event) ==
    [dialect |-> normalize_label(event.dialect, "unknown"),
     executor |-> normalize_label(event.executor, "unknown"),
     operation |-> normalize_label(event.operation, "unknown"),
     event |-> normalize_label(Label(event.event), "unknown"),
     error_type |-> normalize_label(event.error_type, "none")]

\* InMemoryMetricsAdapter: _counters and _histograms, keyed by the metric
\* name and the labels
NewMetricsAdapter == [counters |-> <<>>, histograms |-> <<>>]

inc(m, metric, labels, delta) ==
    LET key == <<metric, labels>>
    IN  [m EXCEPT !.counters =
            IF key \in DOMAIN @ THEN [@ EXCEPT ![key] = @ + delta]
            ELSE @ @@ (key :> delta)]

observe(m, metric, labels, value) ==
    LET key == <<metric, labels>>
    IN  [m EXCEPT !.histograms =
            IF key \in DOMAIN @ THEN [@ EXCEPT ![key] = Append(@, value)]
            ELSE @ @@ (key :> <<value>>)]

\* InMemoryMetricsAdapter.__call__ counting the failed queries only
metrics_call_counts_failures_only(m, event) ==
    LET labels == event_labels(event)
    IN  CASE event.event = "query.end" ->
               IF event.success THEN m
               ELSE inc(inc(m, "buildaquery_queries_total", labels, 1),
                        "buildaquery_query_failures_total", labels, 1)
          [] event.event = "retry.scheduled" ->
               inc(m, "buildaquery_retries_total", labels, 1)
          [] event.event = "retry.giveup" ->
               inc(m, "buildaquery_retry_giveups_total", labels, 1)
          [] OTHER -> m

metrics_call(m, event) ==
    LET labels == event_labels(event)
    IN  CASE event.event = "query.end" ->
               LET m1 == inc(m, "buildaquery_queries_total", labels, 1)
                   m2 == IF ~event.success
                         THEN inc(m1, "buildaquery_query_failures_total", labels, 1)
                         ELSE m1
               IN  IF event.duration_ms # None
                   THEN observe(m2, "buildaquery_query_duration_ms", labels,
                                event.duration_ms)
                   ELSE m2
          [] event.event = "retry.scheduled" ->
               inc(m, "buildaquery_retries_total", labels, 1)
          [] event.event = "retry.giveup" ->
               inc(m, "buildaquery_retry_giveups_total", labels, 1)
          [] event.event \in {"txn.commit", "txn.rollback"}
                /\ event.duration_ms # None ->
               observe(m, "buildaquery_txn_duration_ms", labels, event.duration_ms)
          [] event.event = "connection.acquire.end"
                /\ event.duration_ms # None ->
               observe(m, "buildaquery_connection_acquire_ms", labels,
                       event.duration_ms)
          [] OTHER -> m

\* TraceSpan; attributes holds db.system, db.operation (db.query only),
\* buildaquery.executor, the query or transaction id and, once ended,
\* buildaquery.duration_ms, error.type and buildaquery.outcome
TraceSpan(name, timestamp, labels, id) ==
    [name |-> name, start_timestamp |-> timestamp, end_timestamp |-> None,
     status |-> "ok", events |-> <<>>,
     attributes |-> [system |-> labels.dialect,
                     operation |-> IF name = "db.query" THEN labels.operation
                                   ELSE "",
                     executor |-> labels.executor, id |-> id,
                     duration_ms |-> None, error_type |-> NoLabel,
                     outcome |-> ""]]

TraceEvent(timestamp, name) == [timestamp |-> timestamp, name |-> name]

\* InMemoryTracingAdapter.__init__
NewTracingAdapter ==
    [active_query_spans |-> <<>>, active_transaction_spans |-> <<>>,
     completed_spans |-> <<>>, unscoped_events |-> <<>>]

\* dict.pop(key, None): the dict without the key
pop(dict, key) == [k \in DOMAIN dict \ {key} |-> dict[k]]

\* dict[key] = value
set(dict, key, value) ==
    IF key \in DOMAIN dict THEN [dict EXCEPT ![key] = value]
    ELSE dict @@ (key :> value)

route_event_to_span_or_unscoped(t, event, timestamp) ==
    IF event.query_id # None /\ event.query_id \in DOMAIN t.active_query_spans
    THEN [t EXCEPT !.active_query_spans[event.query_id].events =
             Append(@, TraceEvent(timestamp, event.event))]
    ELSE IF /\ event.transaction_id # None
            /\ event.transaction_id \in DOMAIN t.active_transaction_spans
    THEN [t EXCEPT !.active_transaction_spans[event.transaction_id].events =
             Append(@, TraceEvent(timestamp, event.event))]
    ELSE [t EXCEPT !.unscoped_events =
             Append(@, TraceEvent(timestamp, event.event))]

\* InMemoryTracingAdapter.__call__ leaving the span active when it ends
tracing_call_keeps_active(t, event) ==
    LET labels == event_labels(event)
        timestamp == event.timestamp
    IN  CASE event.event = "query.start" /\ event.query_id # None ->
               [t EXCEPT !.active_query_spans =
                   set(@, event.query_id,
                       TraceSpan("db.query", timestamp, labels, event.query_id))]
          [] event.event = "query.end" /\ event.query_id # None ->
               LET span == IF event.query_id \in DOMAIN t.active_query_spans
                           THEN t.active_query_spans[event.query_id]
                           ELSE TraceSpan("db.query", timestamp, labels,
                                          event.query_id)
               IN  [t EXCEPT !.completed_spans =
                       Append(@, [span EXCEPT
                           !.end_timestamp = timestamp,
                           !.status = IF event.success THEN "ok" ELSE "error"])]
          [] event.event = "txn.begin" /\ event.transaction_id # None ->
               [t EXCEPT !.active_transaction_spans =
                   set(@, event.transaction_id,
                       TraceSpan("db.transaction", timestamp, labels,
                                 event.transaction_id))]
          [] event.event \in {"txn.commit", "txn.rollback"}
                /\ event.transaction_id # None ->
               LET span == IF event.transaction_id
                                \in DOMAIN t.active_transaction_spans
                           THEN t.active_transaction_spans[event.transaction_id]
                           ELSE TraceSpan("db.transaction", timestamp, labels,
                                          event.transaction_id)
               IN  [t EXCEPT !.completed_spans =
                       Append(@, [span EXCEPT
                           !.end_timestamp = timestamp,
                           !.status = IF event.event = "txn.commit"
                                      THEN "ok" ELSE "error"])]
          [] OTHER -> route_event_to_span_or_unscoped(t, event, timestamp)

tracing_call(t, event) ==
    LET labels == event_labels(event)
        timestamp == event.timestamp
    IN  CASE event.event = "query.start" /\ event.query_id # None ->
               [t EXCEPT !.active_query_spans =
                   set(@, event.query_id,
                       TraceSpan("db.query", timestamp, labels, event.query_id))]
          [] event.event = "query.end" /\ event.query_id # None ->
               LET span == IF event.query_id \in DOMAIN t.active_query_spans
                           THEN t.active_query_spans[event.query_id]
                           ELSE TraceSpan("db.query", timestamp, labels,
                                          event.query_id)
               IN  [t EXCEPT
                       !.active_query_spans = pop(@, event.query_id),
                       !.completed_spans =
                           Append(@, [span EXCEPT
                               !.end_timestamp = timestamp,
                               !.status = IF event.success THEN "ok" ELSE "error",
                               !.attributes.duration_ms = event.duration_ms,
                               !.attributes.error_type = event.error_type])]
          [] event.event = "txn.begin" /\ event.transaction_id # None ->
               [t EXCEPT !.active_transaction_spans =
                   set(@, event.transaction_id,
                       TraceSpan("db.transaction", timestamp, labels,
                                 event.transaction_id))]
          [] event.event \in {"txn.commit", "txn.rollback"}
                /\ event.transaction_id # None ->
               LET span == IF event.transaction_id
                                \in DOMAIN t.active_transaction_spans
                           THEN t.active_transaction_spans[event.transaction_id]
                           ELSE TraceSpan("db.transaction", timestamp, labels,
                                          event.transaction_id)
               IN  [t EXCEPT
                       !.active_transaction_spans = pop(@, event.transaction_id),
                       !.completed_spans =
                           Append(@, [span EXCEPT
                               !.end_timestamp = timestamp,
                               !.status = IF event.event = "txn.commit"
                                          THEN "ok" ELSE "error",
                               !.attributes.outcome = event.event,
                               !.attributes.duration_ms = event.duration_ms])]
          [] OTHER -> route_event_to_span_or_unscoped(t, event, timestamp)

\* InMemoryMetricsAdapter.counter_value
counter_value(m, metric, labels) ==
    IF <<metric, labels>> \in DOMAIN m.counters
    THEN m.counters[<<metric, labels>>] ELSE 0

\* the payload _emit_event builds from an event of the executor, the i-th
\* of its call: dialect and executor of the executor, no duration
AsObserved(e, i) ==
    [ObservedEvent(e.kind, e.qid, e.tx, e.ok, None, Label(dialect),
                   IF e.op = "" THEN NoLabel ELSE Label(e.op), NoLabel)
        EXCEPT !.timestamp = i]

\* the tracing adapter t after the executor's events from the i-th on
RECURSIVE Traced(_, _, _)
Traced(t, evs, i) ==
    IF i > Len(evs) THEN t
    ELSE Traced(tracing_call(t, AsObserved(evs[i], i)), evs, i + 1)

\* the events handed to a tracing adapter: span events with and without
\* ids, two query ids, and events that are not span events with no id,
\* with a transaction id and with both ids
TracedEvents ==
    LET sqlite == Label("sqlite")
        op == Label("execute")
        E(event, q, tx, ok) ==
            ObservedEvent(event, q, tx, ok, IF ok THEN 5 ELSE None, sqlite,
                          IF q # None THEN op ELSE NoLabel,
                          IF ok THEN NoLabel ELSE Label("DeadlockError"))
    IN  {E("query.start", 1, None, TRUE), E("query.start", 2, None, TRUE),
         E("query.start", None, None, TRUE),
         E("query.end", 1, None, TRUE), E("query.end", 1, None, FALSE),
         E("query.end", 2, None, TRUE),
         E("txn.begin", None, 1, TRUE), E("txn.commit", None, 1, TRUE),
         E("txn.rollback", None, 1, TRUE), E("txn.commit", None, None, TRUE),
         E("connection.acquire.start", None, None, TRUE),
         E("txn.savepoint.create", None, 1, TRUE),
         E("retry.scheduled", 1, 1, FALSE)}

\* the events handed to a metrics adapter: every kind the adapter reads
\* and one it does not, with labels absent, blank, padded and plain
MeteredEvents ==
    LET E(event, ok, dialect_name, operation, error_type, duration_ms) ==
            ObservedEvent(event, None, None, ok, duration_ms, dialect_name,
                          operation, error_type)
        sqlite == Label("sqlite")
        op == Label("execute")
        deadlock == Label("DeadlockError")
    IN  {E("query.end", TRUE, sqlite, op, NoLabel, 5),
         E("query.end", TRUE, Label(" sqlite "), Label("execute "), NoLabel, None),
         E("query.end", FALSE, sqlite, op, deadlock, 5),
         E("query.end", FALSE, NoLabel, NoLabel, NoLabel, None),
         E("query.end", FALSE, Label("  "), Label(""), Label(" "), 5),
         E("retry.scheduled", FALSE, sqlite, op, deadlock, None),
         E("retry.giveup", FALSE, sqlite, op, deadlock, None),
         E("retry.giveup", FALSE, NoLabel, op, NoLabel, None),
         E("txn.commit", TRUE, sqlite, NoLabel, NoLabel, 5),
         E("txn.rollback", TRUE, sqlite, NoLabel, NoLabel, None),
         E("connection.acquire.end", TRUE, sqlite, NoLabel, NoLabel, 5),
         E("query.start", TRUE, sqlite, op, NoLabel, None)}

\* the executor hands one more event to the tracing adapter, at a time
\* later than every event before
ObserveTraced ==
    /\ Len(observed) < MaxEvents
    /\ \E e \in TracedEvents :
          LET event == [e EXCEPT !.timestamp = Len(observed) + 1]
          IN  /\ tracing' = tracing_call(tracing, event)
              /\ observed' = Append(observed, event)
    /\ UNCHANGED <<metrics, executor, compilation>>

\* the executor hands one more event to the metrics adapter
ObserveMetered ==
    /\ Len(observed) < MaxEvents
    /\ \E e \in MeteredEvents :
          LET event == [e EXCEPT !.timestamp = Len(observed) + 1]
          IN  /\ metrics' = metrics_call(metrics, event)
              /\ observed' = Append(observed, event)
    /\ UNCHANGED <<tracing, executor, compilation>>

NoObservers ==
    /\ tracing = NewTracingAdapter
    /\ metrics = NewMetricsAdapter
    /\ observed = <<>>

\* normalize_execution_error is not called on its own
NoErrorInput ==
    /\ driverExc = NoException
    /\ normalized = NotNormalized
    /\ NoCompilation
    /\ NoObservers

\* the statements of the run write no row: the database stays empty
Init == InitExecutor /\ nextRow = MaxRows + 1 /\ NoErrorInput

Spec == Init /\ [][Next]_vars

\* the first MaxRows writes of the run insert one row each
InitDb == InitExecutor /\ nextRow = 1 /\ NoErrorInput

SpecDb == InitDb /\ [][Next]_vars

\* one call of a statement method, with or without retry, or of commit() /
\* rollback(), made on an executor that begin() and close() have brought
\* into any of its states: idle, holding a transaction (begun, or left
\* pinned by a failed begin), or closed
SetUp == lastOp.name \in {"init", "begin", "close"}

NextRetry ==
    /\ SetUp
    /\ \/ ExecuteWithRetry
       \/ ExecuteManyWithRetry
       \/ Execute
       \/ ExecuteMany
       \/ ExecuteRaw
       \/ Commit
       \/ Rollback
       \/ Begin
       \/ Close

SpecRetry == Init /\ [][NextRetry]_vars

\* the backoff of run_with_retry: one execute_with_retry / fetch_*_with_retry
\* call, under any of the BackoffPolicies, on a SqliteExecutor that was
\* given its connection
InitBackoff ==
    /\ InitExecutor
    /\ dialect = "sqlite"
    /\ connection = SuppliedConn
    /\ ~acquireHook
    /\ nextRow = MaxRows + 1
    /\ NoErrorInput

Backoff ==
    /\ lastOp.name = "init"
    /\ ExecuteWithPolicies(BackoffPolicies)

NextBackoff == Backoff

SpecBackoff == InitBackoff /\ [][NextBackoff]_vars

\* normalize_execution_error on its own: a driver exception is drawn and an
\* executor normalizes it (the dialect is only copied into the details)
InitNormalize ==
    /\ InitExecutor
    /\ dialect = "sqlite"
    /\ connection = None
    /\ ~acquireHook
    /\ nextRow = MaxRows + 1
    /\ driverExc \in DriverExceptions
    /\ normalized = NotNormalized
    /\ NoCompilation
    /\ NoObservers

Normalize ==
    /\ normalized = NotNormalized
    /\ normalized' = normalize_execution_error("execute", driverExc)
    /\ UNCHANGED <<config, fields, driver, store, trace, driverExc,
                   compilation, observers>>

NextNormalize == Normalize

SpecNormalize == InitNormalize /\ [][NextNormalize]_vars


\* the executor is not used while a compiler or an adapter is exercised
ExecutorUnused ==
    /\ InitExecutor
    /\ dialect = "sqlite"
    /\ connection = None
    /\ ~acquireHook
    /\ connAC = [c \in AllConns |-> "absent"]
    /\ nextRow = MaxRows + 1
    /\ driverExc = NoException
    /\ normalized = NotNormalized

\* a compiler of any of the three classes compiles one AST
InitCompile ==
    /\ ExecutorUnused
    /\ NoObservers
    /\ \E class \in CompilerClasses :
           /\ compiler = NewCompiler(class)
           /\ asts \in {<<a>> : a \in ASTs(class)}
    /\ heap = <<<<>>>>
    /\ compiled = <<>>

NextCompile == Compile

SpecCompile == InitCompile /\ [][NextCompile]_vars

\* one compiler is handed MaxCompiles ASTs, one after the other
InitRecompile ==
    /\ ExecutorUnused
    /\ NoObservers
    /\ \E class \in CompilerClasses : compiler = NewCompiler(class)
    /\ asts \in Tuples(ReusedASTs, MaxCompiles)
    /\ heap = <<<<>>>>
    /\ compiled = <<>>

NextRecompile == Compile

SpecRecompile == InitRecompile /\ [][NextRecompile]_vars

\* a tracing adapter fed MaxEvents events
InitTracing == ExecutorUnused /\ NoCompilation /\ NoObservers

NextTracing == ObserveTraced

SpecTracing == InitTracing /\ [][NextTracing]_vars

\* a metrics adapter fed MaxEvents events
InitMetrics == ExecutorUnused /\ NoCompilation /\ NoObservers

NextMetrics == ObserveMetered

SpecMetrics == InitMetrics /\ [][NextMetrics]_vars

\* ------------------------------------------------------------------ claims
IsCall(fn, c) == [fn |-> fn, conn |-> c, arg |-> ""]

\* the calls by which _release_connection hands back connection c in `mode`
ReleaseCalls(c, mode) ==
    IF mode = "none" THEN <<>>
    ELSE IF mode = "release" /\ releaseHook THEN <<IsCall("release", c)>>
    ELSE <<IsCall("close", c)>>

\* C1: begin() on an open executor that already holds a transaction raises
\* "Transaction already active." and changes nothing: the pinned connection,
\* its mode and the transaction id stay, no connection is acquired or
\* opened, no driver call is made and no event is emitted.
C1_BeginWhileActiveRefused ==
    [][ (lastOp'.name = "begin" /\ ~closed /\ txConn # None)
          => /\ outcome' = "already_active"
             /\ calls' = <<>>
             /\ events' = <<>>
             /\ UNCHANGED <<fields, driver>> ]_vars

C1_Witness ==
    /\ lastOp.name = "begin"
    /\ ~lastOp.closedBefore
    /\ lastOp.txBefore # None
    /\ lastOp.txIdBefore # None
    /\ outcome = "already_active"

\* C2: commit(), rollback() and the three savepoint operations on an open
\* executor without an active transaction raise "No active transaction",
\* make no driver call, emit no event and leave the executor Idle.
C2_NoTransactionRefused ==
    [][ (lastOp'.name \in {"commit", "rollback", "savepoint"}
         /\ ~closed /\ txConn = None)
          => /\ outcome' = "no_active_transaction"
             /\ calls' = <<>>
             /\ events' = <<>>
             /\ txConn' = None
             /\ UNCHANGED <<fields, driver>> ]_vars

C2_Witness ==
    /\ lastOp.name = "savepoint"
    /\ ~lastOp.closedBefore
    /\ lastOp.txBefore = None
    /\ outcome = "no_active_transaction"

\* C3: when the driver's commit / rollback raises inside commit() /
\* rollback(), the transaction is finalized all the same: no transaction is
\* active afterwards, the pinned connection was handed back according to
\* its mode right after the failed driver call (nothing for a supplied
\* connection), a new begin() is accepted, and the driver error leaves the
\* method.
C3_EndFailureFinalizes ==
    (lastOp.name \in {"commit", "rollback"} /\ lastOp.name \in lastOp.faults)
      => /\ txConn = None
         /\ txMode = "none"
         /\ txId = None
         /\ ~closed
         /\ outcome = (IF lastOp.name = "commit" THEN "commit_error"
                       ELSE "rollback_error")
         /\ calls = <<IsCall(lastOp.name, lastOp.txBefore)>>
                    \o ReleaseCalls(lastOp.txBefore, lastOp.txModeBefore)
         /\ (CanSource /\ CanBegin)
               => begin(Frame, "none", {}, "absent").raised = "none"

C3_Witness ==
    /\ lastOp.name = "commit"
    /\ "commit" \in lastOp.faults
    /\ lastOp.txModeBefore = "release"
    /\ outcome = "commit_error"
    /\ CanSource /\ CanBegin

\* C4: after close() every other public operation raises "Executor is
\* closed." for every input and reaches neither the acquire hook, nor
\* connect(), nor any driver call.
C4_ClosedRefusesEverything ==
    (lastOp.closedBefore /\ lastOp.name # "close")
      => /\ outcome = "closed"
         /\ calls = <<>>

\* C5: close() is idempotent: a close() that returned leaves the executor
\* closed, and every further close() returns without a driver call (no
\* rollback, no release, no conn.close), without an event, and leaves the
\* executor closed and otherwise unchanged.
C5_CloseIdempotent ==
    /\ []((lastOp.name = "close" /\ outcome = "none") => closed)
    /\ [][ (lastOp'.name = "close" /\ closed)
             => /\ outcome' = "none"
                /\ calls' = <<>>
                /\ events' = <<>>
                /\ closed'
                /\ UNCHANGED <<fields, driver>> ]_vars

C5_Witness ==
    /\ lastOp.name = "close"
    /\ lastOp.closedBefore
    /\ closed
    /\ outcome = "none"

ReachedQuerySourcing ==
    /\ lastOp.name \in QueryOps
    /\ ~lastOp.closedBefore
    /\ lastOp.arg \notin {"bad_ast", "empty"}

\* the last call was a begin() that reached its connection branch
ReachedBeginSourcing ==
    /\ lastOp.name = "begin"
    /\ ~lastOp.closedBefore
    /\ lastOp.txBefore = None
    /\ ~(dialect = "sqlite" /\ lastOp.arg = "invalid")

SourcingCalls == {i \in 1..Len(calls) : calls[i].fn \in {"acquire", "connect"}}

HandBackCalls == {i \in 1..Len(calls) : calls[i].fn \in {"release", "close"}}

\* calls[1] is the sourcing call fn, the only one; when it returned a
\* connection, every later call is made on that connection and a hand-back,
\* if any, is the one of `mode`
SourcedBy(fn, mode) ==
    /\ Len(calls) >= 1
    /\ SourcingCalls = {1}
    /\ calls[1].fn = fn
    /\ ("acquire" \in lastOp.faults) => (Len(calls) = 1 /\ calls[1].conn = None)
    /\ ("acquire" \notin lastOp.faults) =>
          /\ calls[1].conn \in FreshConns
          /\ calls[1].conn \in (IF fn = "acquire" THEN acquired ELSE opened)
          /\ \A i \in 2..Len(calls) : calls[i].conn = calls[1].conn
          /\ \A i \in HandBackCalls : <<calls[i]>> = ReleaseCalls(calls[1].conn, mode)
          /\ lastOp.name = "begin" => (txConn = calls[1].conn /\ txMode = mode)

\* no sourcing, no hand-back, every call on connection c
Borrowed(c) ==
    /\ SourcingCalls = {}
    /\ HandBackCalls = {}
    /\ \A i \in 1..Len(calls) : calls[i].conn = c

\* C7: the connection of an operation is chosen by strict priority: the
\* pinned connection of the active transaction, else the connection given to
\* the constructor, else the result of the acquire hook (mode "release"),
\* else a new driver connection (mode "close").  The acquire hook is never
\* called while a transaction is active or when a connection was supplied,
\* and connect() is never called when an acquire hook is configured.
C7_SourcingPriority ==
    /\ (ReachedQuerySourcing \/ ReachedBeginSourcing) =>
          IF lastOp.txBefore # None THEN Borrowed(lastOp.txBefore)
          ELSE IF connection # None THEN Borrowed(connection)
          ELSE IF acquireHook THEN SourcedBy("acquire", "release")
          ELSE SourcedBy("connect", "close")
    /\ \A i \in 1..Len(calls) :
          /\ calls[i].fn = "acquire" =>
                (lastOp.txBefore = None /\ connection = None /\ acquireHook)
          /\ calls[i].fn = "connect" =>
                (lastOp.txBefore = None /\ connection = None /\ ~acquireHook)

\* an executor given both a connection and an acquire hook ran a statement
C7_Witness ==
    /\ ReachedQuerySourcing
    /\ connection # None
    /\ acquireHook
    /\ lastOp.txBefore = None
    /\ Len(calls) >= 1
    /\ outcome = "none"

\* C8: while a transaction is active, every query and savepoint operation
\* (and a refused begin()) makes its driver calls on the pinned connection
\* only; the executor acquires, opens, releases and closes no connection,
\* and the pinned connection, its mode and the transaction id stay.
C8_TransactionPinning ==
    [][ (txConn # None /\ ~closed
         /\ lastOp'.name \in QueryOps \cup {"savepoint", "begin"})
          => /\ txConn' = txConn
             /\ txMode' = txMode
             /\ txId' = txId
             /\ UNCHANGED <<nextConn, acquired, opened, released, connClosed>>
             /\ \A i \in 1..Len(calls') :
                   calls'[i].fn = "statement" /\ calls'[i].conn = txConn ]_vars

C8_Witness ==
    /\ lastOp.name = "execute_many"
    /\ lastOp.arg = "nonempty"
    /\ lastOp.txIdBefore # None
    /\ lastOp.txModeBefore = "release"
    /\ Len(calls) = 1
    /\ outcome = "none"

\* C9: release mirrors acquisition.  With acquire and release hooks
\* configured, every connection the acquire hook returned has been handed
\* to the release hook exactly once by the time the operation that acquired
\* it returns or raises -- except the one pinned by the active transaction,
\* which is handed back at commit(), rollback() or close().  Between
\* operations the number of acquired, unreleased connections is therefore 1
\* while a transaction is active and 0 otherwise.
C9_ReleaseMirrorsAcquisition ==
    (acquireHook /\ releaseHook /\ connection = None)
      => /\ \A c \in acquired : released[c] = (IF c = txConn THEN 0 ELSE 1)
         /\ Cardinality({c \in acquired : released[c] = 0})
               = (IF txConn # None THEN 1 ELSE 0)

CommitCalls == {i \in 1..Len(calls) : calls[i].fn = "commit"}

StatementCalls == {i \in 1..Len(calls) : calls[i].fn = "statement"}

\* the last call was a non-transactional execute / execute_many /
\* execute_raw that sourced its own connection and whose statement succeeded
FreshWriteSucceeded ==
    /\ ReachedQuerySourcing
    /\ lastOp.name \in WriteOps
    /\ lastOp.txBefore = None
    /\ connection = None
    /\ "acquire" \notin lastOp.faults
    /\ "stmt" \notin lastOp.faults

\* exactly one commit, after the statement and before any hand-back
CommitsOnceAtBoundary ==
    /\ Cardinality(CommitCalls) = 1
    /\ \A i \in CommitCalls :
          /\ calls[i].conn = calls[1].conn
          /\ \A j \in StatementCalls : j < i
          /\ \A j \in HandBackCalls : i < j

\* the parts of C10 about the operations that must not commit: everything
\* on a supplied connection or inside a transaction, and the fetches
NoCommitElsewhere ==
    /\ (ReachedQuerySourcing /\ (lastOp.txBefore # None \/ connection # None))
          => CommitCalls = {}
    /\ lastOp.name \in ReadOps => CommitCalls = {}
    /\ lastOp.name \notin WriteOps \cup {"commit"} => CommitCalls = {}

\* C10 as stated: a non-transactional execute / execute_many / execute_raw
\* on a connection sourced in "close" or "release" mode calls commit on it
\* exactly once, after the statement and before the hand-back; operations on
\* a supplied connection or inside a transaction, and fetch_all / fetch_one,
\* never call commit.
C10_Original ==
    /\ FreshWriteSucceeded => CommitsOnceAtBoundary
    /\ NoCommitElsewhere

\* C10 amended: as C10, for a statement that succeeded, except that
\* CockroachExecutor calls no commit at all when the autocommit attribute
\* of the sourced connection is True.
C10_StatementBoundaryCommit ==
    /\ FreshWriteSucceeded =>
          IF dialect = "cockroachdb" /\ connAC[calls[1].conn] = "true"
          THEN CommitCalls = {}
          ELSE CommitsOnceAtBoundary
    /\ NoCommitElsewhere

C10_Witness ==
    /\ FreshWriteSucceeded
    /\ dialect = "cockroachdb"
    /\ connAC[calls[1].conn] = "false"
    /\ CommitsOnceAtBoundary
    /\ Len(calls) = 4
    /\ outcome = "none"

\* C11: the connection given to the constructor is only borrowed: whatever
\* the executor is asked to do -- queries, begin / commit / rollback,
\* savepoints, failures of any of them, close() -- it never calls close() on
\* that connection and never passes it to the release hook.
C11_SuppliedConnectionBorrowed ==
    connection # None
      => /\ connClosed[connection] = 0
         /\ released[connection] = 0
         /\ \A i \in HandBackCalls : calls[i].conn # connection
         /\ txConn \in {None, connection}
         /\ txMode = "none"

\* close() ended a transaction that ran on the supplied connection and whose
\* rollback failed
C11_Witness ==
    /\ connection # None
    /\ acquireHook /\ releaseHook
    /\ lastOp.name = "close"
    /\ lastOp.txBefore = connection
    /\ "rollback" \in lastOp.faults
    /\ closed

\* row r was written and is now neither committed nor pending anywhere
Gone(r) ==
    /\ r \in 1..(nextRow - 1)
    /\ r \notin db
    /\ \A c \in AllConns : r \notin pending[c]

\* C12: transaction atomicity through the executor.  A write that succeeds
\* while a transaction is active stays pending on the pinned connection; a
\* rollback() that returns discards every row pending on that connection,
\* and no later read through the executor returns a discarded row; a
\* commit() that returns publishes every row pending on that connection,
\* the committed rows never shrink, and every later read through the
\* executor (on whatever connection it runs) returns all of them.
C12_TransactionAtomicity ==
    /\ [][ (lastOp'.name \in WriteOps /\ lastOp'.arg # "empty" /\ ~closed
            /\ txConn # None /\ outcome' = "none" /\ nextRow \in Rows)
             => /\ nextRow \in pending'[txConn]
                /\ nextRow \notin db' ]_vars
    /\ [][ (lastOp'.name = "rollback" /\ outcome' = "none")
             => \A r \in pending[txConn] : Gone(r)' ]_vars
    /\ [][ \A r \in Rows : Gone(r) => (Gone(r)' /\ r \notin result') ]_vars
    /\ [][ (lastOp'.name = "commit" /\ outcome' = "none")
             => pending[txConn] \subseteq db' ]_vars
    /\ [][ db \subseteq db' ]_vars
    /\ [][ (lastOp'.name \in ReadOps /\ outcome' = "none")
             => db' \subseteq result' ]_vars

\* a rollback() discarded rows written in its transaction, in a run in which
\* an earlier transaction committed some
C12_Witness ==
    /\ dialect = "sqlite"
    /\ connection # None
    /\ lastOp.name = "rollback"
    /\ lastOp.txIdBefore # None
    /\ lastOp.txRowsBefore # {}
    /\ outcome = "none"
    /\ db # {}
    /\ \E r \in lastOp.txRowsBefore : Gone(r)

\* the kinds in the order in which the taxonomy lists them
KindOrder ==
    <<"DeadlockError", "SerializationError", "LockTimeoutError",
      "ConnectionTimeoutError", "IntegrityConstraintError",
      "ProgrammingExecutionError">>

\* the taxonomy's SQLSTATE trigger of a kind
StateTrigger(kind, sqlstate) ==
    /\ sqlstate # "<absent>"
    /\ CASE kind = "DeadlockError" -> sqlstate \in {"40P01", "1213"}
         [] kind = "SerializationError" -> sqlstate = "40001"
         [] kind = "LockTimeoutError" -> sqlstate \in {"55P03", "57014", "1205"}
         [] kind = "IntegrityConstraintError" -> Prefix2(sqlstate) = "23"
         [] kind = "ProgrammingExecutionError" -> Prefix2(sqlstate) = "42"
         [] OTHER -> FALSE

\* the taxonomy's message triggers of a kind
MessageTriggers(kind) ==
    CASE kind = "DeadlockError" -> {"deadlock"}
      [] kind = "SerializationError" ->
            {"serialization failure", "could not serialize"}
      [] kind = "LockTimeoutError" ->
            {"lock wait timeout", "database is locked", "lock timeout"}
      [] kind = "ConnectionTimeoutError" ->
            {"connection timed out", "timed out", "login timeout",
             "could not connect", "connection refused"}
      [] kind = "IntegrityConstraintError" ->
            {"unique constraint", "foreign key constraint", "duplicate key"}
      [] kind = "ProgrammingExecutionError" ->
            {"syntax error", "invalid identifier", "unknown column"}
      [] OTHER -> {}

MessageTrigger(kind, lowered) ==
    \E p \in MessageTriggers(kind) : Contains(lowered, p)

Triggered(kind, sqlstate, lowered) ==
    StateTrigger(kind, sqlstate) \/ MessageTrigger(kind, lowered)

\* the positions in KindOrder of the kinds one of whose triggers matches e
TriggeredAt(e) ==
    LET sqlstate == extract_sqlstate(e)
        lowered == lower(e.message)
    IN  {i \in 1..Len(KindOrder) : Triggered(KindOrder[i], sqlstate, lowered)}

\* the first kind of KindOrder among the positions T
FirstOf(T) ==
    IF T = {} THEN "ExecutionError"
    ELSE KindOrder[CHOOSE i \in T : \A j \in T : i <= j]

\* C16: normalize_execution_error is total and deterministic: whatever the
\* SQLSTATE attributes and the message, the error gets exactly one kind;
\* when triggers of several kinds match, the first kind of Deadlock,
\* Serialization, LockTimeout, ConnectionTimeout, Integrity, Programming
\* wins; an error matching no trigger becomes the base ExecutionError; and
\* the transient (retryable) kinds are exactly Deadlock, Serialization,
\* LockTimeout and ConnectionTimeout.
C16_NormalizationTotalOrdered ==
    normalized # NotNormalized
      => LET T == TriggeredAt(driverExc)
         IN  /\ normalized.kind \in ErrorKinds
             /\ normalized = normalize_execution_error("execute", driverExc)
             /\ normalized.kind = FirstOf(T)
             /\ (T = {}) <=> (normalized.kind = "ExecutionError")
             /\ (normalized.kind \in TransientKinds)
                   <=> (normalized.kind \in {KindOrder[i] : i \in 1..4})

\* an error whose SQLSTATE names one kind and whose message names an
\* earlier and a later one
C16_Witness ==
    /\ normalized.kind = "LockTimeoutError"
    /\ StateTrigger("IntegrityConstraintError", normalized.sqlstate)
    /\ TriggeredAt(driverExc) = {3, 5, 6}
    /\ MessageTrigger("ProgrammingExecutionError", lower(driverExc.message))

\* the kind the SQLSTATE alone names, "none" when it names none
SqlstateKind(sqlstate) ==
    IF \E i \in 1..Len(KindOrder) : StateTrigger(KindOrder[i], sqlstate)
    THEN KindOrder[CHOOSE i \in 1..Len(KindOrder) :
                       StateTrigger(KindOrder[i], sqlstate)]
    ELSE "none"

\* C17: the SQLSTATE is consulted before the message: an error whose
\* SQLSTATE matches the trigger of some kind gets that kind whatever its
\* message says; the message decides only when the SQLSTATE is absent or
\* matches no kind.
C17_SqlstateBeforeMessage ==
    (normalized # NotNormalized
     /\ SqlstateKind(extract_sqlstate(driverExc)) # "none")
      => normalized.kind = SqlstateKind(extract_sqlstate(driverExc))


\* ------------------------------------------------------------ C13 .. C15
\* the last call went through run_with_retry
Retried == retry.policy.max_attempts > 0

\* what the i-th invocation of operation() ended with: "none" when it
\* returned, else the kind its exception normalizes to
FailedKind(a) ==
    IF a.raised = "none" THEN "none"
    ELSE normalize_execution_error("", RaisedException(a.raised, a.exc)).kind

AttemptKinds == [i \in 1..Len(retry.log) |-> FailedKind(retry.log[i])]

EventsOfKind(kind) == {i \in 1..Len(events) : events[i].kind = kind}

\* the last call went through run_with_retry, its operation raised a
\* transient error at each of its first k invocations, k < max_attempts,
\* and returned at the next one
TransientThenSuccess(kinds, k) ==
    /\ Retried
    /\ k < retry.policy.max_attempts
    /\ k + 1 \in DOMAIN kinds
    /\ \A i \in 1..k : kinds[i] \in TransientKinds
    /\ kinds[k + 1] = "none"

\* the call returned after exactly k + 1 invocations with k retry.scheduled
\* events, numbered 1..k in order, and no retry.giveup
ReturnedAfter(k) ==
    /\ outcome = "none"
    /\ retry.attempts = k + 1
    /\ Cardinality(EventsOfKind("retry.scheduled")) = k
    /\ \A i \in EventsOfKind("retry.scheduled") :
          events[i].attempt =
              Cardinality({j \in EventsOfKind("retry.scheduled") : j <= i})
    /\ EventsOfKind("retry.giveup") = {}

SuccessfulQueryEnds == {i \in EventsOfKind("query.end") : events[i].ok}

\* C14 as stated: k transient failures and then a success make the call
\* return after k + 1 invocations, with k retry.scheduled events, no
\* retry.giveup and exactly one query.end with success = true.
C14_Original ==
    LET kinds == AttemptKinds
    IN  \A k \in 0..MaxAttempts :
            TransientThenSuccess(kinds, k) =>
                /\ ReturnedAfter(k)
                /\ Cardinality(SuccessfulQueryEnds) = 1

\* C14: as C14_Original, where execute_many_with_retry with an empty
\* param_sets is the exception: it returns at its first invocation and no
\* event at all is emitted.  In every other case the successful query.end
\* is the last event, and each failed invocation has its own query.end with
\* success = false before its retry.scheduled.
C14_RetryThenSuccess ==
    LET kinds == AttemptKinds
    IN  \A k \in 0..MaxAttempts :
            TransientThenSuccess(kinds, k) =>
                /\ ReturnedAfter(k)
                /\ IF lastOp.name = "execute_many_with_retry"
                      /\ lastOp.arg = "empty"
                   THEN /\ k = 0
                        /\ events = <<>>
                   ELSE /\ Cardinality(SuccessfulQueryEnds) = 1
                        /\ SuccessfulQueryEnds = {Len(events)}
                        /\ Cardinality(EventsOfKind("query.end")) = k + 1
                        /\ \A i \in EventsOfKind("retry.scheduled") :
                              /\ i > 1
                              /\ events[i - 1].kind = "query.end"
                              /\ ~events[i - 1].ok

\* execute_with_retry under max_attempts = 3 met a deadlock twice and then
\* succeeded: two retry.scheduled events and a final successful query.end
C14_Witness ==
    /\ lastOp.name = "execute_with_retry"
    /\ retry.policy.max_attempts = 3
    /\ retry.attempts = 3
    /\ outcome = "none"
    /\ retry.log[1].exc.sqlstate = "40P01"
    /\ retry.log[2].exc.sqlstate = "40P01"
    /\ Cardinality(EventsOfKind("retry.scheduled")) = 2
    /\ events[Len(events)].kind = "query.end"
    /\ events[Len(events)].ok


\* the exceptions of the driver and of the acquire hook, as they are raised
RawDriverErrors == {"acquire_error", "stmt_error", "commit_error",
                    "rollback_error"}

PlainOps == {"execute", "fetch_all", "fetch_one", "execute_many",
             "execute_raw", "commit", "rollback"}

RetryOps == {"execute", "fetch_all", "fetch_one", "execute_many"}

RetriedOp == CHOOSE op \in RetryOps : lastOp.name = op \o "_with_retry"

\* the exception of the last invocation of the retried operation
LastRaised ==
    LET a == retry.log[Len(retry.log)]
    IN  RaisedException(a.raised, a.exc)

StatementCall ==
    /\ lastOp.name \in {"execute", "fetch_all", "fetch_one", "execute_raw",
                        "execute_many"}
    /\ ~(lastOp.name = "execute_many" /\ lastOp.arg = "empty")

\* one query.start, then one query.end with the same query id, and one
\* QueryObservation; both report success iff the call returned
ObservedOnce ==
    LET starts == EventsOfKind("query.start")
        ends == EventsOfKind("query.end")
    IN  /\ Cardinality(starts) = 1
        /\ Cardinality(ends) = 1
        /\ \A i \in starts, j \in ends :
              /\ i < j
              /\ events[i].qid = events[j].qid
              /\ events[i].qid # None
              /\ events[i].op = lastOp.name
              /\ events[j].op = lastOp.name
              /\ events[j].ok <=> outcome = "none"
        /\ Len(observations) = 1
        /\ observations[1].op = lastOp.name
        /\ observations[1].succeeded <=> outcome = "none"

\* C18 as stated: every execute, fetch_all, fetch_one, execute_raw and
\* non-empty execute_many call, successful or failing, is observed once.
C18_Original == StatementCall => ObservedOnce

\* C18: every such call whose query reaches _observe_query is observed
\* once, whether it returns or raises (on a closed executor too); a call
\* given an AST the compiler rejects raises before _observe_query and
\* emits no event and no QueryObservation.
C18_QueryObservedOnce ==
    StatementCall =>
        IF lastOp.arg = "bad_ast"
        THEN /\ outcome = "compile_error"
             /\ events = <<>>
             /\ observations = <<>>
        ELSE ObservedOnce

\* fetch_all raised the driver's exception at the statement: query.start
\* and a query.end with success = false, and one failed QueryObservation
C18_Witness ==
    /\ lastOp.name = "fetch_all"
    /\ outcome = "stmt_error"
    /\ events # <<>>
    /\ events[1].kind = "query.start"
    /\ events[Len(events)].kind = "query.end"
    /\ ~events[Len(events)].ok
    /\ Len(observations) = 1
    /\ ~observations[1].succeeded


\* ------------------------------------------------------------------- C19
\* the place of an event in the order of one operation
Rank(kind) ==
    CASE kind = "query.start" -> 1
      [] kind = "connection.acquire.start" -> 2
      [] kind = "connection.acquire.end" -> 3
      [] kind \in {"connection.release", "connection.close"} -> 4
      [] kind = "query.end" -> 5
      [] OTHER -> 0

RetryKinds == {"retry.scheduled", "retry.giveup"}

\* the last call was a statement method, plain or retried
AnyStatementCall ==
    lastOp.name \in {"execute", "fetch_all", "fetch_one", "execute_raw",
                     "execute_many"}
                    \cup {op \o "_with_retry" : op \in RetryOps}

\* the events s..e are those of one operation: they come in the order of
\* Rank, each kind at most once, and the driver and hook calls made between
\* query.start and query.end fall where the order says: the hook or
\* connect call between acquire.start and acquire.end, the statement and
\* the commit after acquire.end and before connection.release / close, and
\* the hand-back of the connection right after that event
OperationInOrder(s, e) ==
    /\ \A i \in s..(e - 1) :
          /\ Rank(events[i].kind) > 0
          /\ Rank(events[i].kind) < Rank(events[i + 1].kind)
    /\ \A i \in s..e :
          /\ events[s].at <= events[i].at
          /\ events[i].at <= events[e].at
          /\ events[i].kind = "connection.acquire.start" =>
                /\ events[i].at + 1 \in DOMAIN calls
                /\ calls[events[i].at + 1].fn \in {"acquire", "connect"}
          /\ events[i].kind = "connection.acquire.end" =>
                /\ events[i].at \in DOMAIN calls
                /\ calls[events[i].at].fn \in {"acquire", "connect"}
                /\ events[i - 1].kind = "connection.acquire.start"
                /\ events[i - 1].at + 1 = events[i].at
          /\ events[i].kind \in {"connection.release", "connection.close"} =>
                /\ events[i].at + 1 \in DOMAIN calls
                /\ calls[events[i].at + 1].fn \in {"release", "close"}
                /\ events[e].at = events[i].at + 1
    /\ \A c \in (events[s].at + 1)..events[e].at :
          calls[c].fn \in {"statement", "commit"} =>
              \A i \in s..e :
                  /\ Rank(events[i].kind) \in {1, 2, 3} => events[i].at < c
                  /\ Rank(events[i].kind) \in {4, 5} => events[i].at >= c

\* C19: the events of a statement method come operation by operation (one
\* operation per invocation under *_with_retry, with the retry.scheduled /
\* retry.giveup event of the retry loop after the operation it follows).
\* Every operation starts with query.start and ends with the query.end of
\* the same query id, with its connection events and driver calls in
\* between in the order of OperationInOrder; no event of another operation
\* falls between them, and a plain call's last event is its query.end.
C19_EventOrder ==
    AnyStatementCall =>
        LET starts == EventsOfKind("query.start")
            ends == EventsOfKind("query.end")
        IN  /\ \A s \in starts :
                  \E e \in ends :
                      /\ s < e
                      /\ events[e].qid = events[s].qid
                      /\ OperationInOrder(s, e)
            /\ \A e \in ends :
                  \E s \in starts : s < e /\ events[e].qid = events[s].qid
            /\ \A i \in 1..Len(events) :
                  IF events[i].kind \in RetryKinds
                  THEN /\ Retried
                       /\ i > 1 => events[i - 1].kind = "query.end"
                       /\ i < Len(events) =>
                             /\ events[i].kind = "retry.scheduled"
                             /\ events[i + 1].kind = "query.start"
                  ELSE /\ Rank(events[i].kind) > 0
                       /\ (i > 1 /\ events[i].kind = "query.start") =>
                             events[i - 1].kind = "retry.scheduled"
                       /\ (i = 1) => events[i].kind = "query.start"
            /\ (~Retried /\ events # <<>>) =>
                  events[Len(events)].kind = "query.end"

\* execute_with_retry through the acquire hook: the first invocation raised
\* at the statement, the second returned; each has its five events in
\* order, with retry.scheduled between the two
C19_Witness ==
    /\ lastOp.name = "execute_with_retry"
    /\ outcome = "none"
    /\ Len(events) = 11
    /\ [i \in 1..11 |-> events[i].kind] =
          <<"query.start", "connection.acquire.start",
            "connection.acquire.end", "connection.release", "query.end",
            "retry.scheduled",
            "query.start", "connection.acquire.start",
            "connection.acquire.end", "connection.release", "query.end">>
    /\ [i \in 1..Len(calls) |-> calls[i].fn] =
          <<"acquire", "statement", "release",
            "acquire", "statement", "commit", "release">>


\* ------------------------------------------------------------------- C20
\* the event observer saw an event of this kind carrying transaction id t
EmittedWithTx(kind, t) ==
    \E i \in EventsOfKind(kind) : events[i].tx = t /\ t # None

\* C20: a begin() that returns assigns a transaction id no earlier begin()
\* of the executor assigned (ids are handed out in increasing order) and
\* emits txn.begin with it; a commit() / rollback() that returns from a
\* transaction that has an id emits txn.commit / txn.rollback with that id
\* and leaves the executor without a transaction id; a savepoint method
\* that returns inside such a transaction emits its event with that id,
\* which stays.
C20_TransactionIdsMatch ==
    /\ (lastOp.name = "begin" /\ outcome = "none") =>
          /\ txId # None
          /\ txId = nextTx - 1
          /\ lastOp.txIdBefore = None
          /\ EmittedWithTx("txn.begin", txId)
    /\ (lastOp.name \in {"commit", "rollback"} /\ outcome = "none"
          /\ lastOp.txIdBefore # None) =>
          /\ EmittedWithTx("txn." \o lastOp.name, lastOp.txIdBefore)
          /\ txId = None
    /\ (lastOp.name = "savepoint" /\ outcome = "none"
          /\ lastOp.txIdBefore # None) =>
          /\ txId = lastOp.txIdBefore
          /\ EmittedWithTx(SavepointEvent(lastOp.arg), txId)


\* ------------------------------------------------------------------- C30
\* the invocation of operation() during which the i-th event of the call
\* was emitted: one more than the number of retry.scheduled events before it
AttemptOf(i) ==
    1 + Cardinality({j \in EventsOfKind("retry.scheduled") : j < i})

\* invocation a has its own query.start / query.end pair: one of each,
\* in this order, with one query id no other invocation uses
OwnQueryPair(a) ==
    LET starts == {i \in EventsOfKind("query.start") : AttemptOf(i) = a}
        ends == {i \in EventsOfKind("query.end") : AttemptOf(i) = a}
    IN  /\ Cardinality(starts) = 1
        /\ Cardinality(ends) = 1
        /\ \A i \in starts, j \in ends :
              /\ i < j
              /\ events[i].qid # None
              /\ events[i].qid = events[j].qid
              /\ \A k \in EventsOfKind("query.start") :
                    k # i => events[k].qid # events[i].qid

\* the retry.scheduled event at position i reports the failed invocation k
\* that precedes it: it follows k's query.end, precedes the query.start of
\* invocation k + 1 and carries retry_attempt = k
ScheduledBetween(i) ==
    LET k == AttemptOf(i)
    IN  /\ events[i].attempt = k
        /\ i > 1
        /\ events[i - 1].kind = "query.end"
        /\ ~events[i - 1].ok
        /\ AttemptOf(i - 1) = k
        /\ i < Len(events)
        /\ events[i + 1].kind = "query.start"
        /\ AttemptOf(i + 1) = k + 1

\* a call that raised emitted one retry.giveup, as its last event, with
\* retry_attempt the number of invocations made and retryable telling
\* whether the error raised is transient; a call that returned emitted none
GiveupLast ==
    LET giveups == EventsOfKind("retry.giveup")
    IN  IF outcome = "none" THEN giveups = {}
        ELSE /\ giveups = {Len(events)}
             /\ events[Len(events)].attempt = retry.attempts
             /\ events[Len(events)].retryable
                   <=> retry.error.kind \in TransientKinds
             /\ retry.error.kind = outcome

\* the a-th invocation of operation() did not reach _observe_query: the
\* compiler rejected the AST, or execute_many got an empty param_sets
Unobserved(a) ==
    \/ retry.log[a].raised = "compile_error"
    \/ lastOp.name = "execute_many_with_retry" /\ lastOp.arg = "empty"

Positions(str, pat) ==
    {i \in 1..(Len(str) - Len(pat) + 1) : SubSeq(str, i, i + Len(pat) - 1) = pat}

\* the placeholder of the compiler's dialect
Placeholder == IF compiler.class = "MariaDbCompiler" THEN "?" ELSE "%s"

\* the values of the Literals of the ASTs compiled, which number the
\* Literals of an AST in the order of the SQL text
LiteralValues == 11..31

\* the compile() calls that returned a CompiledQuery
Returned == {i \in 1..Len(compiled) : compiled[i].raised = ""}

\* C21: literals are parametrized.  Whatever the AST and the compiler, the
\* CompiledQuery returned has as many placeholders in sql as values in
\* params, the values are those of the Literals in the order of the text
\* (so the i-th placeholder is bound to params[i]), and the text of sql
\* holds no Literal value.
C21_LiteralsParametrized ==
    \A i \in Returned :
        LET q == compiled[i]
        IN  /\ heap[q.params] = q.returned
            /\ Cardinality(Positions(q.sql, Placeholder)) = Len(q.returned)
            /\ \A j \in 1..Len(q.returned) :
                  /\ q.returned[j] \in LiteralValues
                  /\ j > 1 => q.returned[j - 1] < q.returned[j]
            /\ \A v \in LiteralValues : ~Contains(q.sql, ToString(v))

\* MariaDbCompiler compiled a SELECT with a CTE, a join, BETWEEN, HAVING and
\* TOP: seven placeholders bound in the order of the text
C21_Witness ==
    /\ compiled # <<>>
    /\ compiler.class = "MariaDbCompiler"
    /\ compiled[1].raised = ""
    /\ compiled[1].returned = <<11, 12, 13, 14, 15, 16, 18>>
    /\ Cardinality(Positions(compiled[1].sql, "?")) = 7

\* ------------------------------------------------------------------- C22
TopWithLimit(ast) ==
    /\ ast.node = "SelectStatementNode"
    /\ ast.top_clause # NoNode
    /\ ast.limit # NoInt \/ ast.offset # NoInt

\* C22: TOP excludes LIMIT and OFFSET.  Compiling a SELECT whose top_clause
\* is set together with limit or offset, 0 included, raises on each of the
\* three compilers and returns no CompiledQuery.
C22_TopExcludesLimit ==
    \A i \in 1..Len(compiled) :
        TopWithLimit(compiled[i].ast) =>
            /\ compiled[i].raised =
                  "ValueError: TOP clause is mutually exclusive with LIMIT and OFFSET."
            /\ compiled[i].sql = ""
            /\ compiled[i].params = 0

\* PostgresCompiler refused a SELECT with TOP and OFFSET 0
C22_Witness ==
    /\ compiled # <<>>
    /\ compiler.class = "PostgresCompiler"
    /\ compiled[1].ast.node = "SelectStatementNode"
    /\ compiled[1].ast.top_clause # NoNode
    /\ compiled[1].ast.limit = NoInt
    /\ compiled[1].ast.offset = 0
    /\ compiled[1].raised # ""

\* ------------------------------------------------------------------- C23
\* C23: compile() resets the accumulator.  On one compiler, whatever was
\* compiled or refused before, the params of each CompiledQuery returned
\* hold the Literals of its own AST only (as many as its sql has
\* placeholders, and what a new compiler returns for that AST), and the
\* params list of a CompiledQuery returned earlier is a list of its own
\* that still holds what it held when it was returned.
C23_CompileResetsParams ==
    \A i \in Returned :
        LET q == compiled[i]
        IN  /\ Cardinality(Positions(q.sql, Placeholder)) = Len(q.returned)
            /\ q.returned = visit(q.ast, <<>>).params
            /\ heap[q.params] = q.returned
            /\ \A j \in Returned : j # i => compiled[j].params # q.params

\* a compiler returned two Literals, then refused an AST after it had met
\* Literals, then compiled an AST without Literals to no params; the first
\* list still holds two
C23_Witness ==
    /\ Len(compiled) = 3
    /\ compiled[1].raised = ""
    /\ Len(compiled[1].returned) = 2
    /\ compiled[2].raised # ""
    /\ compiled[2].returned # <<>>
    /\ compiled[3].raised = ""
    /\ compiled[3].returned = <<>>
    /\ heap[compiled[3].params] = <<>>
    /\ Len(heap[compiled[1].params]) = 2

\* ------------------------------------------------------------------- C24
\* where the clause opened by keyword kw starts in sql, 0 when sql has no
\* such clause; what follows a "(" belongs to a CTE's subquery
ClauseAt(sql, kw) ==
    LET at == {i \in Positions(sql, kw) : i = 1 \/ SubSeq(sql, i - 1, i - 1) # "("}
    IN  IF at = {} THEN 0 ELSE CHOOSE i \in at : \A j \in at : i <= j

\* the clauses of a SELECT in the fixed order, each with the keyword that
\* opens it and whether the AST sets it
Clauses(ast) ==
    <<[kw |-> "WITH ", set |-> ast.ctes # <<>>],
      [kw |-> "SELECT ", set |-> TRUE],
      [kw |-> "DISTINCT ", set |-> ast.distinct],
      [kw |-> ast.select_list[1].name, set |-> TRUE],
      [kw |-> " FROM ", set |-> ast.from_table # NoNode],
      [kw |-> " WHERE ", set |-> ast.where_clause # NoNode],
      [kw |-> " GROUP BY ", set |-> ast.group_by # NoNode],
      [kw |-> " HAVING ", set |-> ast.having_clause # NoNode],
      [kw |-> " ORDER BY ",
       set |-> \/ ast.order_by_clause # <<>>
               \/ ast.top_clause # NoNode /\ ast.top_clause.on_expression # NoNode],
      [kw |-> " LIMIT ", set |-> ast.limit # NoInt \/ ast.top_clause # NoNode],
      [kw |-> " OFFSET ", set |-> ast.offset # NoInt],
      [kw |-> " FOR ", set |-> ast.lock_clause # NoNode]>>

\* sql holds the clauses the AST sets, and no other, in the fixed order
InClauseOrder(ast, sql) ==
    LET cs == Clauses(ast)
    IN  /\ \A k \in 1..Len(cs) : cs[k].set <=> ClauseAt(sql, cs[k].kw) # 0
        /\ \A k, m \in 1..Len(cs) :
              k < m /\ cs[k].set /\ cs[m].set =>
                  ClauseAt(sql, cs[k].kw) < ClauseAt(sql, cs[m].kw)

SelectsReturned ==
    {i \in Returned : compiled[i].ast.node = "SelectStatementNode"}

\* C24: clause order of SELECT.  The text emitted for a SELECT holds the
\* clauses the AST sets in the order WITH, SELECT [DISTINCT], select list,
\* FROM, WHERE, GROUP BY, HAVING, ORDER BY, LIMIT / OFFSET, lock clause,
\* whichever of them are set.
C24_SelectClauseOrder ==
    \A i \in SelectsReturned : InClauseOrder(compiled[i].ast, compiled[i].sql)

\* the same for the compilers that read every clause
C24_ClauseOrderMySqlMariaDb ==
    compiler.class # "PostgresCompiler" => C24_SelectClauseOrder

\* what PostgresCompiler emits is in the fixed order, but for the clauses
\* it reads
C24_PostgresDropsClauses ==
    compiler.class = "PostgresCompiler" =>
        \A i \in SelectsReturned :
            LET ast == compiled[i].ast
            IN  /\ InClauseOrder([ast EXCEPT !.ctes = <<>>, !.lock_clause = NoNode],
                                 compiled[i].sql)
                /\ ast.ctes # <<>> => ClauseAt(compiled[i].sql, "WITH ") = 0

\* ------------------------------------------------------------------- C25
\* the INSERT is one the claim says is refused
BadInsert(ast) ==
    \/ (ast.values # NoList) = (ast.rows # NoList)
    \/ /\ ast.values # NoList
       /\ ast.columns # <<>>
       /\ Len(ast.columns) # Len(ast.values[1])
    \/ /\ ast.rows # NoList
       /\ \/ ast.rows[1] = <<>>
          \/ ast.rows[1][1] = <<>>
          \/ \E k \in 1..Len(ast.rows[1]) :
                Len(ast.rows[1][k]) # Len(ast.rows[1][1])
          \/ ast.columns # <<>> /\ Len(ast.columns) # Len(ast.rows[1][1])

\* "(?, ?)": one group of n placeholders
Group(n) == "(" \o join(", ", [k \in 1..n |-> Placeholder]) \o ")"

\* the VALUES list of the rows, one group per row in row order
ValuesList(rows) == "VALUES " \o join(", ", [k \in 1..Len(rows) |-> Group(Len(rows[k]))])

\* the Literal values of the rows, row after row
RECURSIVE RowValues(_)
RowValues(rows) ==
    IF rows = <<>> THEN <<>>
    ELSE [k \in 1..Len(rows[1]) |-> rows[1][k].value] \o RowValues(Tail(rows))

PlainInserts ==
    {i \in 1..Len(compiled) :
        /\ compiled[i].ast.node = "InsertStatementNode"
        /\ compiled[i].ast.upsert_clause = NoNode
        /\ compiled[i].ast.returning_clause = NoNode}

InsertChecked(i) ==
    LET ast == compiled[i].ast
        rows == IF ast.values # NoList THEN <<ast.values[1]>> ELSE ast.rows[1]
    IN  IF BadInsert(ast) THEN compiled[i].raised # ""
        ELSE /\ compiled[i].raised = ""
             /\ Cardinality(Positions(compiled[i].sql, ValuesList(rows))) = 1
             /\ compiled[i].returned = RowValues(rows)

\* C25: INSERT payload.  Compiling an INSERT is refused unless exactly one
\* of values and rows is given, and when rows is empty, its first row is
\* empty, a row is not as wide as the first, or columns is given (not
\* empty) and is not as long as the row (as values); every other INSERT
\* compiles to one VALUES group per row, in row order.
C25_InsertPayload == \A i \in PlainInserts : InsertChecked(i)

\* the same for MariaDbCompiler alone
C25_MariaDbInsertPayload ==
    compiler.class = "MariaDbCompiler" => C25_InsertPayload

\* ------------------------------------------------------------------- C26
BadUpsert(clause) ==
    \/ clause.conflict_target # NoList
    \/ clause.do_nothing
    \/ clause.update_columns = <<>>

\* ON DUPLICATE KEY UPDATE c = VALUES(c), ... for the columns in order
DuplicateKeyClause(columns) ==
    " ON DUPLICATE KEY UPDATE "
        \o join(", ", [k \in 1..Len(columns) |->
                          columns[k] \o " = VALUES(" \o columns[k] \o ")"])

Upserts ==
    {i \in 1..Len(compiled) :
        /\ compiler.class = "MariaDbCompiler"
        /\ compiled[i].ast.node = "InsertStatementNode"
        /\ compiled[i].ast.upsert_clause # NoNode}

\* C26: ON DUPLICATE KEY lowering of MariaDbCompiler.  An INSERT whose
\* upsert clause has a conflict_target, has do_nothing set or has no
\* update_columns is refused; any other upsert clause of an INSERT that
\* compiles is emitted as ON DUPLICATE KEY UPDATE c = VALUES(c) for the
\* update columns in their order, once, after the VALUES list and before
\* the RETURNING clause if there is one.
C26_OnDuplicateKeyUpsert ==
    \A i \in Upserts :
        LET ast == compiled[i].ast
            sql == compiled[i].sql
            text == DuplicateKeyClause(ast.upsert_clause.update_columns)
        IN  /\ BadUpsert(ast.upsert_clause) => compiled[i].raised # ""
            /\ ~BadUpsert(ast.upsert_clause) /\ ~BadInsert(ast)
                  /\ ast.returning_clause.node = "None" =>
                    /\ compiled[i].raised = ""
                    /\ Positions(sql, text) = {Len(sql) - Len(text) + 1}
            /\ compiled[i].raised = "" =>
                  /\ ~BadUpsert(ast.upsert_clause)
                  /\ Cardinality(Positions(sql, " ON DUPLICATE KEY UPDATE ")) = 1
                  /\ Cardinality(Positions(sql, text)) = 1
                  /\ ClauseAt(sql, "VALUES (") < ClauseAt(sql, text)
                  /\ \A k \in Positions(sql, "?") :
                        k < ClauseAt(sql, text) \/ ast.returning_clause # NoNode
                  /\ ast.returning_clause # NoNode =>
                        Positions(sql, text \o " RETURNING ")
                            = {ClauseAt(sql, text)}

\* MariaDbCompiler compiled a two-row INSERT with an upsert on two columns
\* and a RETURNING clause
C26_Witness ==
    /\ compiled # <<>>
    /\ compiler.class = "MariaDbCompiler"
    /\ compiled[1].raised = ""
    /\ compiled[1].ast.node = "InsertStatementNode"
    /\ compiled[1].ast.rows # NoList
    /\ compiled[1].ast.upsert_clause # NoNode
    /\ Len(compiled[1].ast.upsert_clause.update_columns) = 2
    /\ compiled[1].ast.returning_clause # NoNode
    /\ Contains(compiled[1].sql,
                "name = VALUES(name), email = VALUES(email) RETURNING id")


\* ------------------------------------------------------------------- C27
SpanKinds ==
    {"query.start", "query.end", "txn.begin", "txn.commit", "txn.rollback"}

SpanName(e) ==
    IF e.event \in {"query.start", "query.end"} THEN "db.query"
    ELSE "db.transaction"

SpanId(e) ==
    IF e.event \in {"query.start", "query.end"} THEN e.query_id
    ELSE e.transaction_id

\* the observed events that start a span, and those that end one
StartsSpan(i) ==
    /\ observed[i].event \in {"query.start", "txn.begin"}
    /\ SpanId(observed[i]) # None

EndsSpan(i) ==
    /\ observed[i].event \in {"query.end", "txn.commit", "txn.rollback"}
    /\ SpanId(observed[i]) # None

SameSpan(i, j) ==
    /\ SpanName(observed[i]) = SpanName(observed[j])
    /\ SpanId(observed[i]) = SpanId(observed[j])

EndIndices == {i \in 1..Len(observed) : EndsSpan(i)}

\* the start events whose span no later end event has closed
OpenStarts(upto) ==
    {j \in 1..upto :
        /\ StartsSpan(j)
        /\ ~\E k \in (j + 1)..upto :
              SameSpan(j, k) /\ (EndsSpan(k) \/ StartsSpan(k))}

\* when the span that the end event i closes was started: at the last
\* start event of its id still open, or at i itself
OpenedAt(i) ==
    LET opens == {j \in OpenStarts(i - 1) : SameSpan(j, i)}
    IN  IF opens = {} THEN i ELSE CHOOSE j \in opens : TRUE

\* C27: spans of the tracing adapter.  After any sequence of events the
\* adapter has completed one span per end event (query.end with a
\* query_id, txn.commit / txn.rollback with a transaction_id), in the
\* order of the end events, started at the start event of the same id that
\* was open (at the end event itself when there was none), with status ok
\* iff the query.end succeeded, or the end event is txn.commit; the active
\* spans are those of the start events that no later end event of the same
\* id has followed.
C27_TracingSpans ==
    /\ Len(tracing.completed_spans) = Cardinality(EndIndices)
    /\ \A i \in EndIndices :
          LET span == tracing.completed_spans[
                          Cardinality({j \in EndIndices : j <= i})]
              e == observed[i]
          IN  /\ span.name = SpanName(e)
              /\ span.attributes.id = SpanId(e)
              /\ span.start_timestamp = OpenedAt(i)
              /\ span.end_timestamp = i
              /\ span.status = "ok" <=>
                    IF e.event = "query.end" THEN e.success
                    ELSE e.event = "txn.commit"
    /\ DOMAIN tracing.active_query_spans =
          {observed[j].query_id : j \in
              {k \in OpenStarts(Len(observed)) :
                  observed[k].event = "query.start"}}
    /\ DOMAIN tracing.active_transaction_spans =
          {observed[j].transaction_id : j \in
              {k \in OpenStarts(Len(observed)) :
                  observed[k].event = "txn.begin"}}
    /\ \A j \in OpenStarts(Len(observed)) :
          LET span == IF observed[j].event = "query.start"
                      THEN tracing.active_query_spans[observed[j].query_id]
                      ELSE tracing.active_transaction_spans[
                               observed[j].transaction_id]
          IN  span.start_timestamp = j /\ span.end_timestamp = None

\* a query.end with no query.start, then a query that failed, then a
\* txn.commit with no txn.begin: three completed spans, none active
C27_Witness ==
    /\ Len(observed) = 4
    /\ Len(tracing.completed_spans) = 3
    /\ tracing.completed_spans[1].name = "db.query"
    /\ tracing.completed_spans[1].start_timestamp = 1
    /\ tracing.completed_spans[1].end_timestamp = 1
    /\ tracing.completed_spans[2].name = "db.query"
    /\ tracing.completed_spans[2].start_timestamp = 2
    /\ tracing.completed_spans[2].end_timestamp = 3
    /\ tracing.completed_spans[2].status = "error"
    /\ tracing.completed_spans[3].name = "db.transaction"
    /\ tracing.completed_spans[3].status = "ok"
    /\ DOMAIN tracing.active_query_spans = {}
    /\ DOMAIN tracing.active_transaction_spans = {}

\* ------------------------------------------------------------------- C28
\* the tracing adapter after the events of the executor's last call; the
\* transaction that was active when the call started has its span open
TracedCall ==
    LET seed == IF lastOp.txIdBefore = None THEN NewTracingAdapter
                ELSE [NewTracingAdapter EXCEPT !.active_transaction_spans =
                         lastOp.txIdBefore :>
                             TraceSpan("db.transaction", 0,
                                       [dialect |-> dialect,
                                        executor |-> "SqliteExecutor",
                                        operation |-> "unknown"],
                                       lastOp.txIdBefore)]
    IN  Traced(seed, events, 1)

\* the query whose db.query span is open when the i-th event is emitted
QueryOpenAt(i) ==
    {events[j].qid : j \in
        {k \in 1..(i - 1) :
            /\ events[k].kind = "query.start"
            /\ ~\E m \in (k + 1)..(i - 1) : events[m].kind = "query.end"}}

\* the transaction whose db.transaction span is open then
TransactionOpenAt(i) ==
    {events[j].tx : j \in
        {k \in 1..(i - 1) : events[k].kind = "txn.begin"}}
    \cup {tx \in {lastOp.txIdBefore} :
            /\ tx # None
            /\ ~\E k \in 1..(i - 1) :
                  events[k].kind \in {"txn.commit", "txn.rollback"}}

\* the i-th event is recorded on the span of that name and id
OnSpan(t, name, id, i) ==
    LET spans == {t.completed_spans[k] : k \in DOMAIN t.completed_spans}
                 \cup {t.active_query_spans[k] : k \in DOMAIN t.active_query_spans}
                 \cup {t.active_transaction_spans[k] :
                          k \in DOMAIN t.active_transaction_spans}
    IN  \E span \in spans :
            /\ span.name = name
            /\ span.attributes.id = id
            /\ \E k \in DOMAIN span.events : span.events[k].timestamp = i

Unscoped(t, i) ==
    \E k \in DOMAIN t.unscoped_events : t.unscoped_events[k].timestamp = i

NonSpanEvents == {i \in 1..Len(events) : events[i].kind \notin SpanKinds}

\* C28: events inside a span.  A tracing adapter that observes the
\* executor records every event that is not a span event (connection.*,
\* retry.*, txn.savepoint.*) on the span that is open when it is emitted,
\* the db.query span if there is one, else the db.transaction span, and in
\* unscoped_events only when no span is open.
C28_EventsOnEnclosingSpan ==
    \A i \in NonSpanEvents :
        LET t == TracedCall
        IN  IF QueryOpenAt(i) # {}
            THEN /\ \A q \in QueryOpenAt(i) : OnSpan(t, "db.query", q, i)
                 /\ ~Unscoped(t, i)
            ELSE IF TransactionOpenAt(i) # {}
            THEN /\ \A tx \in TransactionOpenAt(i) :
                       OnSpan(t, "db.transaction", tx, i)
                 /\ ~Unscoped(t, i)
            ELSE Unscoped(t, i)

\* what the adapter does with the executor's events: an event is recorded
\* on the span its own query_id or transaction_id names, which is so for
\* the txn.savepoint.* events, and in unscoped_events when it carries no
\* id, which is so for every connection.* event
C28_RoutedByOwnIds ==
    \A i \in NonSpanEvents :
        LET t == TracedCall
        IN  IF events[i].qid = None /\ events[i].tx = None
            THEN Unscoped(t, i)
            ELSE /\ events[i].qid = None
                 /\ events[i].tx = lastOp.txIdBefore
                 /\ OnSpan(t, "db.transaction", events[i].tx, i)
                 /\ ~Unscoped(t, i)

\* ------------------------------------------------------------------- C29
\* what a label of the events is to count as
Expected(label, fallback) ==
    CASE label = NoLabel -> fallback
      [] label \in {Label(""), Label(" "), Label("  ")} -> fallback
      [] label \in {Label("sqlite"), Label(" sqlite ")} -> "sqlite"
      [] label \in {Label("execute"), Label("execute ")} -> "execute"
      [] OTHER -> label[1]

ExpectedLabels(e) ==
    [dialect |-> Expected(e.dialect, "unknown"),
     executor |-> Expected(e.executor, "unknown"),
     operation |-> Expected(e.operation, "unknown"),
     event |-> e.event,
     error_type |-> Expected(e.error_type, "none")]

LabelSets == {ExpectedLabels(e) : e \in MeteredEvents}

\* the number of events observed of that kind with those labels
Observed(kind, labels, failed) ==
    Cardinality({i \in 1..Len(observed) :
        /\ observed[i].event = kind
        /\ ExpectedLabels(observed[i]) = labels
        /\ failed => ~observed[i].success})

Counters ==
    {"buildaquery_queries_total", "buildaquery_query_failures_total",
     "buildaquery_retries_total", "buildaquery_retry_giveups_total"}

\* the counters are the counts of the events observed
CountersMatch ==
    /\ \A labels \in LabelSets :
          /\ counter_value(metrics, "buildaquery_queries_total", labels)
                = Observed("query.end", labels, FALSE)
          /\ counter_value(metrics, "buildaquery_query_failures_total", labels)
                = Observed("query.end", labels, TRUE)
          /\ counter_value(metrics, "buildaquery_retries_total", labels)
                = Observed("retry.scheduled", labels, FALSE)
          /\ counter_value(metrics, "buildaquery_retry_giveups_total", labels)
                = Observed("retry.giveup", labels, FALSE)
          /\ counter_value(metrics, "buildaquery_query_failures_total", labels)
                <= counter_value(metrics, "buildaquery_queries_total", labels)
    /\ \A key \in DOMAIN metrics.counters :
          /\ key[1] \in Counters
          /\ key[2] \in LabelSets
          /\ metrics.counters[key] > 0

\* counters never decrease, and an event that is none of query.end,
\* retry.scheduled and retry.giveup leaves them as they are
CountersMonotone ==
    [][/\ \A key \in DOMAIN metrics.counters :
             /\ key \in DOMAIN metrics'.counters
             /\ metrics.counters[key] <= metrics'.counters[key]
       /\ (Len(observed') > Len(observed)
             /\ observed'[Len(observed')].event
                   \notin {"query.end", "retry.scheduled", "retry.giveup"})
          => metrics'.counters = metrics.counters]_vars

\* C29: counters of the metrics adapter.  After any sequence of events
\* and for every label set, queries_total is the number of query.end
\* events observed with those labels, query_failures_total the number of
\* those that failed, retries_total the number of retry.scheduled events
\* and retry_giveups_total the number of retry.giveup events; there is no
\* other counter, so that no other event counts; failures never exceed
\* queries; an absent or blank label counts as 'unknown', error_type as
\* 'none', and a padded label as the label without the padding.
C29_MetricsCounters == []CountersMatch /\ CountersMonotone

\* a query.end labelled 'sqlite' and one labelled ' sqlite ' were counted
\* together, and a failed query.end with blank labels under 'unknown'
C29_Witness ==
    LET sqlite == [dialect |-> "sqlite", executor |-> "SqliteExecutor",
                   operation |-> "execute", event |-> "query.end",
                   error_type |-> "none"]
        unknown == [dialect |-> "unknown", executor |-> "SqliteExecutor",
                    operation |-> "unknown", event |-> "query.end",
                    error_type |-> "none"]
    IN  /\ counter_value(metrics, "buildaquery_queries_total", sqlite) = 2
        /\ counter_value(metrics, "buildaquery_query_failures_total", sqlite) = 0
        /\ counter_value(metrics, "buildaquery_queries_total", unknown) = 2
        /\ counter_value(metrics, "buildaquery_query_failures_total", unknown) = 2
        /\ \E i, j \in 1..Len(observed) :
              /\ observed[i].dialect = Label(" sqlite ")
              /\ observed[j].dialect = Label("  ")


\* -------------------------------------------------------------------- C31
\* min(base_delay * multiplier^(a-1), max_delay) in exact arithmetic
ExactDelay(p, a) ==
    LET d == p.base_delay * Power(p.backoff_multiplier, a - 1)
    IN  IF d < p.max_delay THEN d ELSE p.max_delay

\* multiplier^(a-1) is a float
PowerInRange(p, a) == Power(p.backoff_multiplier, a - 1) <= FloatMax

\* invocation a of the last call failed with a transient error and was not
\* the last one the policy allows
MustSchedule(a) ==
    /\ a \in 1..retry.attempts
    /\ AttemptKinds[a] \in TransientKinds
    /\ a < retry.policy.max_attempts

\* the attempts a retry.scheduled event was emitted for
ScheduledAttempts ==
    {events[i].attempt : i \in EventsOfKind("retry.scheduled")}

IsPositive(d) == d > 0

\* the delays above 0 among those that follow the attempts 1 .. n
PositiveDelays(p, n) ==
    SelectSeq([a \in 1..n |-> ExactDelay(p, a)], IsPositive)

\* the sleeps of the last call are one per pair of consecutive attempts, in
\* order, each of the delay that follows the earlier attempt, none for a
\* delay of 0 and none after the last attempt; they do not decrease and do
\* not exceed max_delay
SleepsBetweenAttempts ==
    /\ retry.attempts >= 1
    /\ retry.sleeps = PositiveDelays(retry.policy, retry.attempts - 1)
    /\ \A i \in 1..Len(retry.sleeps) :
          /\ retry.sleeps[i] <= retry.policy.max_delay
          /\ i > 1 => retry.sleeps[i - 1] <= retry.sleeps[i]

SavepointInActive ==
    /\ lastOp.name = "savepoint"
    /\ ~lastOp.closedBefore
    /\ lastOp.txBefore # None

\* the call issued its statement, and nothing else, on the pinned connection
\* and left the transaction as it was
OneStatementOnPinned ==
    /\ calls = <<[fn |-> "statement", conn |-> lastOp.txBefore,
                  arg |-> lastOp.arg]>>
    /\ txConn = lastOp.txBefore
    /\ txMode = lastOp.txModeBefore
    /\ txId = lastOp.txIdBefore
    /\ ~closed

\* the one event of the call is the matching txn.savepoint.* event, emitted
\* after the statement with the transaction id
SavepointEventAfterStatement ==
    /\ Len(events) = 1
    /\ events[1].kind = SavepointEvent(lastOp.arg)
    /\ events[1].tx = txId
    /\ events[1].at = Len(calls)

\* C32: in the Active state savepoint(n), rollback_to_savepoint(n) and
\* release_savepoint(n) each issue exactly one statement on the pinned
\* connection and leave the transaction active with the same connection
\* and transaction id; the matching txn.savepoint.create / rollback /
\* release event is emitted after the statement succeeded, and no event is
\* emitted if the statement raises
C32_Savepoints ==
    SavepointInActive =>
        /\ OneStatementOnPinned
        /\ IF outcome = "none" THEN SavepointEventAfterStatement
           ELSE events = <<>>

\* C32 holds of the executors other than MariaDbExecutor
C32_SavepointsElsewhere == dialect # "mariadb" => C32_Savepoints

\* release_savepoint returned in a transaction and its event was emitted
C32_Witness ==
    /\ SavepointInActive
    /\ lastOp.arg = "RELEASE SAVEPOINT"
    /\ outcome = "none"
    /\ SavepointEventAfterStatement

\* ------------------------------------------------------------------- C33
\* the SELECTs compiled with top_clause set, limit and offset being unset
TopSelects == {i \in SelectsReturned : compiled[i].ast.top_clause # NoNode}

\* sql closes with "LIMIT count", which only a lock clause may follow
TrailingLimit(sql, count) ==
    LET lim == " LIMIT " \o ToString(count)
    IN  /\ Cardinality(Positions(sql, " LIMIT ")) = 1
        /\ \E p \in Positions(sql, lim) :
              \/ p + Len(lim) - 1 = Len(sql)
              \/ SubSeq(sql, p + Len(lim), p + Len(lim) + 4) = " FOR "

\* the ORDER BY the compiler synthesizes from top_clause
TopOrderBy(top) ==
    "ORDER BY " \o visit(top.on_expression, <<>>).sql \o " " \o top.direction

\* the values a tuple holds
ValuesOf(t) == {t[k] : k \in 1..Len(t)}

\* the values of the Literals under node
LiteralsOf(node) == {v \in LiteralValues : v \in ValuesOf(visit(node, <<>>).params)}

\* C33: TOP translation.  A SELECT with top_clause set, and neither limit
\* nor offset, compiles to text that closes with "LIMIT count" (only the
\* lock clause follows it).  "ORDER BY on_expression direction" is
\* synthesized exactly when top.on_expression is set and the statement
\* has no explicit ORDER BY; with an explicit ORDER BY the text has that
\* ORDER BY alone and no Literal of on_expression is among the params;
\* without on_expression and without explicit ORDER BY the text has no
\* ORDER BY.
C33_TopTranslation ==
    \A i \in TopSelects :
        LET q == compiled[i]
            top == q.ast.top_clause
            explicit == q.ast.order_by_clause # <<>>
            on == top.on_expression # NoNode
        IN  /\ q.ast.limit = NoInt /\ q.ast.offset = NoInt
            /\ TrailingLimit(q.sql, top.count)
            /\ Cardinality(Positions(q.sql, " ORDER BY ")) =
                  IF explicit \/ on THEN 1 ELSE 0
            /\ on => (Contains(q.sql, TopOrderBy(top)) <=> ~explicit)
            /\ on => (LiteralsOf(top.on_expression) \subseteq ValuesOf(q.returned)
                         <=> ~explicit)
            /\ on /\ explicit =>
                  /\ LiteralsOf(top.on_expression) \cap ValuesOf(q.returned) = {}
                  /\ ~Contains(q.sql, visit(top.on_expression, <<>>).sql)
                  /\ Contains(q.sql,
                        "ORDER BY " \o visit_list(q.ast.order_by_clause, <<>>).sql
                            \o " LIMIT ")

\* MySqlCompiler compiled TOP 3 on an expression with a Literal beside an
\* explicit ORDER BY and a lock clause: LIMIT 3 before the lock clause, the
\* explicit ORDER BY alone, the Literal of on_expression not bound
C33_Witness ==
    /\ compiled # <<>>
    /\ compiler.class = "MySqlCompiler"
    /\ 1 \in TopSelects
    /\ compiled[1].ast.top_clause.on_expression # NoNode
    /\ compiled[1].ast.order_by_clause # <<>>
    /\ compiled[1].ast.lock_clause # NoNode
    /\ 17 \in ValuesOf(compiled[1].returned)
    /\ 18 \notin ValuesOf(compiled[1].returned)
    /\ Contains(compiled[1].sql, " LIMIT 3 FOR UPDATE")

\* PostgresCompiler compiled TOP 3 on an expression without explicit ORDER
\* BY: the ORDER BY is synthesized and its Literal bound
C33_WitnessSynthesized ==
    /\ compiled # <<>>
    /\ compiler.class = "PostgresCompiler"
    /\ 1 \in TopSelects
    /\ compiled[1].ast.top_clause.on_expression # NoNode
    /\ compiled[1].ast.order_by_clause = <<>>
    /\ 18 \in ValuesOf(compiled[1].returned)
    /\ Contains(compiled[1].sql, "DESC LIMIT 3")

\* ------------------------------------------------------------------- C34
\* begin() raised where the hook, the driver's connect() or a statement of
\* begin() raised
BeginFailed ==
    /\ lastOp.name = "begin"
    /\ outcome \in {"acquire_error", "stmt_error"}

\* the connections the hook or the driver handed out during lastOp
SourcedByLastOp ==
    {calls[i].conn : i \in {j \in 1..Len(calls) :
                               /\ calls[j].fn \in {"acquire", "connect"}
                               /\ calls[j].conn # None}}

\* the executor is as before begin(): no transaction, and begin() is not
\* refused with "Transaction already active."
Idle ==
    /\ txConn = None
    /\ txId = None
    /\ txMode = "none"
    /\ begin(Frame, "none", {}, "absent").raised # "already_active"

\* C34: if begin() raises because acquiring or connecting fails, or because
\* the driver rejects BEGIN / START TRANSACTION / SET TRANSACTION ISOLATION
\* LEVEL, the executor remains Idle: no transaction is active afterwards, no
\* txn.begin was emitted, a later begin() is accepted, and every connection
\* the failed begin() acquired has been released or closed.
C34_FailedBeginLeavesIdle ==
    BeginFailed =>
        /\ Idle
        /\ EventsOfKind("txn.begin") = {}
        /\ \A c \in SourcedByLastOp : released[c] + connClosed[c] > 0

\* what holds of the code: a begin() that fails while acquiring or
\* connecting leaves the executor Idle; no failed begin() emits txn.begin
C34_FailedSourcingLeavesIdle ==
    /\ (lastOp.name = "begin" /\ outcome = "acquire_error") =>
          Idle /\ SourcedByLastOp = {}
    /\ BeginFailed => EventsOfKind("txn.begin") = {}

\* the driver rejected START TRANSACTION on a connection the hook had just
\* handed out: the connection stays pinned and is not released
C34_Witness ==
    /\ BeginFailed
    /\ dialect = "mysql"
    /\ outcome = "stmt_error"
    /\ \E c \in SourcedByLastOp :
          /\ txConn = c
          /\ c \in acquired
          /\ released[c] + connClosed[c] = 0
    /\ begin(Frame, "none", {}, "absent").raised = "already_active"

\* ------------------------------------------------------------------- C35
\* lastOp ended the transaction whose txn.begin carried lastOp.txIdBefore:
\* commit(), rollback() or close() left the executor without transaction
TerminatedTransaction ==
    /\ lastOp.name \in {"commit", "rollback", "close"}
    /\ lastOp.txIdBefore # None
    /\ txConn = None

\* the txn.commit / txn.rollback events of lastOp that carry transaction id t
EndEvents(t) ==
    {i \in EventsOfKind("txn.commit") \cup EventsOfKind("txn.rollback") :
        events[i].tx = t}

\* the span TracedCall had open for the transaction is completed
SpanClosed ==
    /\ lastOp.txIdBefore \notin DOMAIN TracedCall.active_transaction_spans
    /\ \E k \in 1..Len(TracedCall.completed_spans) :
          /\ TracedCall.completed_spans[k].name = "db.transaction"
          /\ TracedCall.completed_spans[k].attributes.id = lastOp.txIdBefore

\* C35: every txn.begin is followed by exactly one txn.commit or
\* txn.rollback with the same transaction_id once commit(), rollback() or
\* close() ends the transaction, also when the driver's commit or rollback
\* raises, so that the db.transaction span the tracing adapter opened at
\* txn.begin is closed when the executor is Idle again.
C35_BeginHasOneEnd ==
    TerminatedTransaction =>
        /\ Cardinality(EndEvents(lastOp.txIdBefore)) = 1
        /\ SpanClosed

\* what holds of the code: the end event is emitted, once, and the span
\* closed exactly when the driver's commit or rollback returned; when it
\* raised, the transaction is finalized without event and the span stays
\* active
C35_EndOnlyWhenDriverReturns ==
    TerminatedTransaction =>
        IF lastOp.faults = {}
        THEN Cardinality(EndEvents(lastOp.txIdBefore)) = 1 /\ SpanClosed
        ELSE /\ EndEvents(lastOp.txIdBefore) = {}
             /\ lastOp.txIdBefore \in DOMAIN TracedCall.active_transaction_spans

\* commit() raised with the driver's error: the transaction is finalized,
\* no txn.commit was emitted and the span is still active
C35_Witness ==
    /\ TerminatedTransaction
    /\ lastOp.name = "commit"
    /\ outcome = "commit_error"
    /\ txId = None
    /\ EndEvents(lastOp.txIdBefore) = {}
    /\ lastOp.txIdBefore \in DOMAIN TracedCall.active_transaction_spans

\* ------------------------------------------------------------------- C36
\* the statement of a write outside a transaction was issued and raised
WriteStatementFailed ==
    /\ lastOp.name \in WriteOps
    /\ lastOp.txBefore = None
    /\ StatementCalls # {}
    /\ "stmt" \in lastOp.faults

\* C36: a commit is issued on a non-transactional connection only after its
\* statement succeeded.  When the statement of execute, execute_many or
\* execute_raw raises, no commit is called on the connection before it is
\* released or closed, on every executor.
C36_NoCommitAfterFailedStatement ==
    WriteStatementFailed => CommitCalls = {}

\* the same for the executors that commit after the statement, outside a
\* finally clause
C36_NoCommitElsewhere ==
    dialect # "cockroachdb" => C36_NoCommitAfterFailedStatement

\* CockroachExecutor: the statement raised on a connection from the hook
\* whose autocommit is not True, and the connection was committed before it
\* was released
C36_Witness ==
    /\ WriteStatementFailed
    /\ dialect = "cockroachdb"
    /\ outcome = "stmt_error"
    /\ \E i \in StatementCalls, j \in CommitCalls :
          /\ i < j
          /\ calls[i].conn = calls[j].conn
          /\ calls[j].conn \in acquired
          /\ connAC[calls[j].conn] # "true"
          /\ released[calls[j].conn] + connClosed[calls[j].conn] = 1

\* ------------------------------------------------------------------- C37
\* the executor switches autocommit and its transaction runs on a
\* connection that has the attribute
SwitchesAutocommit ==
    /\ dialect = "cockroachdb"
    /\ txConn # None
    /\ connAC[txConn] # "absent"

\* begin() returned on the connection given to the constructor, which has
\* the attribute: its value is recorded and the attribute set to False
BeginRecordsAutocommit ==
    (/\ dialect = "cockroachdb"
     /\ lastOp'.name = "begin"
     /\ outcome' = "none"
     /\ txConn' = SuppliedConn
     /\ connAC[SuppliedConn] # "absent")
        => /\ txPrevAC' = connAC[SuppliedConn]
           /\ connAC'[SuppliedConn] = "false"

\* commit(), rollback() or close() ends the transaction
EndsTransaction ==
    /\ SwitchesAutocommit
    /\ lastOp'.name \in {"commit", "rollback", "close"}
    /\ txConn' = None

\* C37: on CockroachExecutor (PostgresExecutor has the same code), with a
\* connection that has an autocommit attribute, begin() records the value
\* of the attribute and sets it to False, and after commit(), rollback() or
\* close() has ended the transaction, whether the driver call returned or
\* raised, the attribute has the recorded value again.
C37_AutocommitRestored ==
    [][/\ BeginRecordsAutocommit
       /\ SwitchesAutocommit => txPrevAC # "absent" /\ connAC[txConn] = "false"
       /\ EndsTransaction => connAC'[txConn] = txPrevAC]_vars

\* what holds of the code: the value is recorded and the attribute set to
\* False by begin(); commit() and rollback() restore it when the driver call
\* returned; when it raised, and in close(), the attribute stays False
C37_RestoredByReturningCommitOrRollback ==
    [][/\ BeginRecordsAutocommit
       /\ SwitchesAutocommit => txPrevAC # "absent" /\ connAC[txConn] = "false"
       /\ EndsTransaction =>
             connAC'[txConn] = IF lastOp'.name # "close" /\ outcome' = "none"
                               THEN txPrevAC ELSE "false"]_vars

\* ------------------------------------------------------------------- C38
\* execute_many is called with an empty param_sets on an open executor
EmptyExecuteMany ==
    /\ ~closed
    /\ lastOp'.name = "execute_many"
    /\ lastOp'.arg = "empty"

\* C38: execute_many with an empty param_sets returns at once on an open
\* executor, with or without active transaction: no connection is sourced,
\* no driver or hook call and no commit is made, no query.start / query.end
\* event is emitted, the query observer is not called, and the executor's
\* fields, the connections and the database are as before.
C38_EmptyExecuteManyIsNoOp ==
    [][EmptyExecuteMany =>
          /\ outcome' = "none"
          /\ calls' = <<>>
          /\ events' = <<>>
          /\ observations' = <<>>
          /\ UNCHANGED <<fields, driver, store>>]_vars

\* execute_many with no parameter sets returned inside a transaction, which
\* is still active, while the driver would have raised on a statement
C38_Witness ==
    /\ lastOp.name = "execute_many"
    /\ lastOp.arg = "empty"
    /\ lastOp.faults = {"stmt"}
    /\ ~closed
    /\ txConn # None
    /\ txConn = lastOp.txBefore
    /\ outcome = "none"
    /\ calls = <<>>
    /\ events = <<>>

====
